---- MODULE Spec2Model ----
(***************************************************************************)
(* Model of the Gemini document service (app/services.py, app/main.py):    *)
(* the four service operations, their candidate-model loop and the         *)
(* recovery of a record from the model's free-form text.                   *)
(*                                                                         *)
(* A raw model text is a sequence of tokens.  A token is a record          *)
(* [t, s]: t is the token class and s its characters.                      *)
(*   "p"  punctuation  { } [ ] , :                                         *)
(*   "s"  a JSON string literal whose content is s                         *)
(*   "n"  a JSON number literal                                            *)
(*   "l"  one of the JSON literals null, true, false                       *)
(*   "w"  a word of prose (not JSON)                                       *)
(*   "f"  a markdown fence of three backticks; s is its language tag,    *)
(*        "json" or ""                                                     *)
(* White space between tokens is not represented.                          *)
(***************************************************************************)
EXTENDS Integers, Sequences, FiniteSets, TLC

P(x) == [t |-> "p", s |-> x]
S(x) == [t |-> "s", s |-> x]
N(x) == [t |-> "n", s |-> x]
L(x) == [t |-> "l", s |-> x]
W(x) == [t |-> "w", s |-> x]
F(x) == [t |-> "f", s |-> x]

LB == P("{")
RB == P("}")
LSB == P("[")
RSB == P("]")
COMMA == P(",")
COLON == P(":")
EOT == [t |-> "eot", s |-> ""]
FenceJson == F("json")
FencePlain == F("")

TokAt(toks, i) == IF i >= 1 /\ i <= Len(toks) THEN toks[i] ELSE EOT

(***************************************************************************)
(* Decoded JSON values (what json.loads returns).                          *)
(***************************************************************************)
JStr(x) == [ty |-> "str", s |-> x]
JNum(x) == [ty |-> "num", s |-> x]
JBool(x) == [ty |-> "bool", s |-> x]
JNull == [ty |-> "null"]
JObj(m) == [ty |-> "obj", m |-> m]
JArr(a) == [ty |-> "arr", a |-> a]
EmptyDict == [k \in {} |-> JNull]

IsStr(v) == v.ty = "str"
IsObj(v) == v.ty = "obj"
IsArr(v) == v.ty = "arr"

ParseFail == [ok |-> FALSE, val |-> JNull, nxt |-> 0]
ParseOk(v, n) == [ok |-> TRUE, val |-> v, nxt |-> n]

RECURSIVE ParseValue(_, _)
RECURSIVE ParseMembers(_, _, _)
RECURSIVE ParseElements(_, _, _)

\* One JSON value starting at token i.
ParseValue(toks, i) ==
    LET tk == TokAt(toks, i) IN
    CASE tk.t = "s" -> ParseOk(JStr(tk.s), i + 1)
      [] tk.t = "n" -> ParseOk(JNum(tk.s), i + 1)
      [] tk.t = "l" -> ParseOk(IF tk.s = "null" THEN JNull ELSE JBool(tk.s), i + 1)
      [] tk = LB -> IF TokAt(toks, i + 1) = RB
                    THEN ParseOk(JObj(EmptyDict), i + 2)
                    ELSE ParseMembers(toks, i + 1, EmptyDict)
      [] tk = LSB -> IF TokAt(toks, i + 1) = RSB
                     THEN ParseOk(JArr(<<>>), i + 2)
                     ELSE ParseElements(toks, i + 1, <<>>)
      [] OTHER -> ParseFail

\* "key" : value , ... } with the members decoded so far in acc; a repeated
\* key keeps its last value, as a Python dict does.
ParseMembers(toks, i, acc) ==
    IF TokAt(toks, i).t = "s" /\ TokAt(toks, i + 1) = COLON
    THEN LET r == ParseValue(toks, i + 2) IN
         IF ~r.ok THEN ParseFail
         ELSE LET m == (TokAt(toks, i).s :> r.val) @@ acc IN
              IF TokAt(toks, r.nxt) = COMMA THEN ParseMembers(toks, r.nxt + 1, m)
              ELSE IF TokAt(toks, r.nxt) = RB THEN ParseOk(JObj(m), r.nxt + 1)
              ELSE ParseFail
    ELSE ParseFail

\* value , ... ] with the elements decoded so far in acc.
ParseElements(toks, i, acc) ==
    LET r == ParseValue(toks, i) IN
    IF ~r.ok THEN ParseFail
    ELSE IF TokAt(toks, r.nxt) = COMMA THEN ParseElements(toks, r.nxt + 1, Append(acc, r.val))
    ELSE IF TokAt(toks, r.nxt) = RSB THEN ParseOk(JArr(Append(acc, r.val)), r.nxt + 1)
    ELSE ParseFail

\* json.loads: the whole text is one value; anything else is a JSONDecodeError.
json_loads(toks) ==
    LET r == ParseValue(toks, 1) IN
    IF r.ok /\ r.nxt = Len(toks) + 1 THEN [ok |-> TRUE, val |-> r.val]
    ELSE [ok |-> FALSE, val |-> JNull]

Positions(toks, tk) == {i \in 1..Len(toks) : toks[i] = tk}
Min(set) == CHOOSE x \in set : \A y \in set : x <= y
Max(set) == CHOOSE x \in set : \A y \in set : x >= y

\* re.search(r'({[\s\S]*})', text): the greedy match from the first '{' to the
\* last '}' of the text; no match when no '}' follows the first '{'.
BraceSearch(toks) ==
    LET ls == Positions(toks, LB)
        rs == Positions(toks, RB) IN
    IF ls # {} /\ rs # {} /\ Min(ls) < Max(rs)
    THEN [found |-> TRUE, group |-> SubSeq(toks, Min(ls), Max(rs))]
    ELSE [found |-> FALSE, group |-> <<>>]

\* re.search of the pattern (three backticks)json\s*([\s\S]*?)\s*(three
\* backticks): from the first json-tagged fence lazily to the next run of
\* three backticks, which a second json-tagged fence also supplies.
FenceSearch(toks) ==
    LET os == Positions(toks, FenceJson) IN
    IF os = {} THEN [found |-> FALSE, group |-> <<>>]
    ELSE LET o == Min(os)
             cs == {j \in (o + 1)..Len(toks) : toks[j].t = "f"} IN
         IF cs = {} THEN [found |-> FALSE, group |-> <<>>]
         ELSE [found |-> TRUE, group |-> SubSeq(toks, o + 1, Min(cs) - 1)]

(***************************************************************************)
(* Strings.  TLC cannot take a string apart, so the string functions the   *)
(* code uses are tables over the strings that occur in the modelled texts  *)
(* and requests; a string outside a table has the property of no entry.    *)
(***************************************************************************)
\* str.lower()
Lower(s) ==
    CASE s = "SalesQuote" -> "salesquote"
      [] s = "ProformaInvoice" -> "proformainvoice"
      [] s = "JobConsumption" -> "jobconsumption"
      [] s = "Sales Quote" -> "sales quote"
      [] s = "Proforma Invoice" -> "proforma invoice"
      [] s = "Job Shipment" -> "job shipment"
      [] s = "SQ" -> "sq"
      [] s = "Sales" -> "sales"
      [] s = "Proforma" -> "proforma"
      [] s = "Job" -> "job"
      [] s = "Delivery" -> "delivery"
      [] s = "UNKNOWN" -> "unknown"
      [] s = "salesQuoteNo" -> "salesquoteno"
      [] s = "taxInvoiceNo" -> "taxinvoiceno"
      [] s = "jobNo" -> "jobno"
      [] s = "Quote No" -> "quote no"
      [] s = "Invoice No" -> "invoice no"
      [] s = "Job Shipment No" -> "job shipment no"
      [] s = "SQ1007475" -> "sq1007475"
      [] s = "JC149529" -> "jc149529"
      [] s = "Combined" -> "combined"
      [] s = "ALL" -> "all"
      [] s = "Delivery Note" -> "delivery note"
      [] s = "Sales Quote Number" -> "sales quote number"
      [] s = "Tax Invoice Number" -> "tax invoice number"
      [] s = "Job Shipment Number" -> "job shipment number"
      [] s = "This is a Sales Quote" -> "this is a sales quote"
      [] s = "It is a Proforma Invoice" -> "it is a proforma invoice"
      [] s = "Sales Quote and Job Shipment" -> "sales quote and job shipment"
      [] OTHER -> s

\* kw in s, for the keywords the code searches and s already lower-cased.
Contains(s, kw) ==
    CASE kw = "sales quote" ->
            s \in {"sales quote", "sales quote number", "this is a sales quote",
                   "sales quote and job shipment"}
      [] kw = "salesquote" -> s \in {"salesquote"}
      [] kw = "proforma invoice" -> s \in {"proforma invoice", "it is a proforma invoice"}
      [] kw = "proformainvoice" -> s \in {"proformainvoice"}
      [] kw = "job shipment" ->
            s \in {"job shipment", "job shipment number", "sales quote and job shipment"}
      [] kw = "job consumption" -> s \in {"job consumption"}
      [] kw = "jobconsumption" -> s \in {"jobconsumption"}
      [] kw = "quote" ->
            s \in {"quote", "sales quote", "sales quote number", "salesquote",
                   "this is a sales quote", "sales quote and job shipment",
                   "sales_quote_number", "quote no", "salesquoteno"}
      [] kw = "invoice" ->
            s \in {"invoice", "proforma invoice", "tax invoice number", "proformainvoice",
                   "it is a proforma invoice", "tax_invoice_number", "invoice no",
                   "taxinvoiceno"}
      [] kw = "tax" -> s \in {"tax", "tax invoice number", "tax_invoice_number"}
      [] kw = "shipment" ->
            s \in {"shipment", "job shipment", "job shipment number",
                   "sales quote and job shipment", "job shipment no"}
      [] kw = "job" ->
            s \in {"job", "job shipment", "job shipment number", "jobconsumption",
                   "job consumption", "sales quote and job shipment", "job_number",
                   "jobno", "job shipment no"}
      [] OTHER -> s = kw

\* kw in text.lower(): the keyword occurs in the characters of some token.
TextContains(toks, kw) == \E i \in 1..Len(toks) : Contains(Lower(toks[i].s), kw)

(***************************************************************************)
(* Exceptions and what a candidate's turn of the loop ends with.           *)
(***************************************************************************)
None == <<>>
Exc(kind, detail) == [exc |-> kind, detail |-> detail]
NoExc == Exc("", "")
\* str(e)
ErrStr(e) == e.detail

NoRecord == [kind |-> "none"]
\* The turn raised e inside the try block (the except clause takes it).
Raised(e, tier) == [raised |-> TRUE, err |-> e, rec |-> NoRecord, tier |-> tier]
\* The turn returned rec; tier is the recovery branch that produced the mapping:
\* 1 direct decode, 2 extracted substring, 3 field regex, 4 keywords.
Returned(rec, tier) == [raised |-> FALSE, err |-> NoExc, rec |-> rec, tier |-> tier]

(***************************************************************************)
(* pydantic validation of a decoded value against a field type (lax mode). *)
(***************************************************************************)
NumericStrings == {"0.9", "1.5", "-5", "0.0", "1", "0", "0.7", "0.5"}
\* float(x) in hundredths.
FloatOf(s) ==
    CASE s = "0.9" -> 90
      [] s = "1.5" -> 150
      [] s = "-5" -> -500
      [] s = "1" -> 100
      [] s = "0.7" -> 70
      [] s = "0.5" -> 50
      [] s = "true" -> 100
      [] OTHER -> 0

Has(m, k) == k \in DOMAIN m
\* field: str (required)
ReqStr(m, k) == Has(m, k) /\ m[k].ty = "str"
\* field: Optional[str] = None
OptStr(m, k) == ~Has(m, k) \/ m[k].ty \in {"str", "null"}
\* field: str = default
DefStr(m, k) == ~Has(m, k) \/ m[k].ty = "str"
\* a value a float field accepts
FloatOk(v) == v.ty \in {"num", "bool"} \/ (v.ty = "str" /\ v.s \in NumericStrings)
ReqFloat(m, k) == Has(m, k) /\ FloatOk(m[k])
OptFloat(m, k) == ~Has(m, k) \/ m[k].ty = "null" \/ FloatOk(m[k])
DefFloat(m, k) == ~Has(m, k) \/ FloatOk(m[k])
\* a value a bool field accepts
BoolOk(v) ==
    \/ v.ty = "bool"
    \/ v.ty = "num" /\ v.s \in {"0", "1", "0.0"}
    \/ v.ty = "str" /\ v.s \in {"true", "false", "0", "1", "yes", "no"}
DefBool(m, k) == ~Has(m, k) \/ BoolOk(m[k])

StrOrNone(m, k) == IF Has(m, k) /\ m[k].ty = "str" THEN <<m[k].s>> ELSE None
StrOrDefault(m, k, d) == IF Has(m, k) THEN m[k].s ELSE d
FloatField(v) == IF v.ty = "bool" THEN (IF v.s = "true" THEN 100 ELSE 0) ELSE FloatOf(v.s)
FloatOrDefault(m, k, d) == IF Has(m, k) THEN FloatField(m[k]) ELSE d
FloatOrNone(m, k) == IF Has(m, k) /\ m[k].ty # "null" THEN <<FloatField(m[k])>> ELSE None
BoolField(v) == v.s \in {"true", "1", "yes"}
BoolOrDefault(m, k, d) == IF Has(m, k) THEN BoolField(m[k]) ELSE d

\* schemas.Discrepancy(**d) accepts the mapping d.
DiscrepancyOk(d) ==
    /\ IsObj(d)
    /\ ReqStr(d.m, "field_name")
    /\ OptStr(d.m, "document_value")
    /\ OptStr(d.m, "erp_value")
    /\ DefStr(d.m, "severity")
    /\ OptStr(d.m, "description")
    /\ OptStr(d.m, "discrepancy_type")

Discrepancy(d) ==
    [field_name |-> d.m["field_name"].s,
     document_value |-> StrOrNone(d.m, "document_value"),
     erp_value |-> StrOrNone(d.m, "erp_value"),
     severity |-> StrOrDefault(d.m, "severity", "medium"),
     description |-> StrOrNone(d.m, "description"),
     discrepancy_type |-> StrOrNone(d.m, "discrepancy_type")]

\* schemas.FieldConfidence(**f) accepts the mapping f.
FieldConfidenceOk(f) ==
    /\ IsObj(f)
    /\ ReqStr(f.m, "field_name")
    /\ OptStr(f.m, "extracted_value")
    /\ ReqFloat(f.m, "extraction_confidence")
    /\ OptFloat(f.m, "match_assessment_confidence")
    /\ DefBool(f.m, "verified")

FieldConfidence(f) ==
    [field_name |-> f.m["field_name"].s,
     extracted_value |-> StrOrNone(f.m, "extracted_value"),
     extraction_confidence |-> FloatField(f.m["extraction_confidence"]),
     match_assessment_confidence |-> FloatOrNone(f.m, "match_assessment_confidence"),
     verified |-> BoolOrDefault(f.m, "verified", FALSE)]

\* [C(**x) for x in d.get(key, [])] runs without raising: the value is a list
\* of mappings the class accepts; iterating an empty string or an empty
\* mapping builds nothing, any other value raises.
ListOk(m, key, ElemOk(_)) ==
    \/ ~Has(m, key)
    \/ m[key].ty = "arr" /\ \A i \in 1..Len(m[key].a) : ElemOk(m[key].a[i])
    \/ m[key].ty = "str" /\ m[key].s = ""
    \/ m[key].ty = "obj" /\ DOMAIN m[key].m = {}

ListOf(m, key, Elem(_)) ==
    IF Has(m, key) /\ m[key].ty = "arr"
    THEN [i \in 1..Len(m[key].a) |-> Elem(m[key].a[i])]
    ELSE <<>>

(***************************************************************************)
(* extract_identifiers_from_gemini                                         *)
(***************************************************************************)
\* fields_to_extract_map.get(document_type.lower(), ["documentId"])
expected_fields(document_type) ==
    CASE Lower(document_type) = "salesquote" -> <<"salesQuoteNo", "customerName">>
      [] Lower(document_type) = "proformainvoice" -> <<"proformaInvoiceNo">>
      [] Lower(document_type) = "jobconsumption" -> <<"jobConsumptionNo">>
      [] OTHER -> <<"documentId">>

\* The characters of a run of tokens as one string: of one token its own
\* characters, of none the empty string; a longer run is some non-empty text.
Joined(toks) ==
    IF Len(toks) = 0 THEN ""
    ELSE IF Len(toks) = 1 THEN toks[1].s
    ELSE "<text>"

\* re.search of  ["']?name["']?\s*:\s*["']?(.*?)["']?[,}]  : the first
\* occurrence of the name, quoted or bare, that a colon follows and after which
\* a ',' or '}' occurs on the same line; group(1) is what lies before the
\* nearest ',' or '}'.  A fence stands on a line of its own.
FieldSearch(toks, name) ==
    LET ends(i) == {j \in (i + 2)..Len(toks) :
                       /\ toks[j] \in {COMMA, RB}
                       /\ \A k \in (i + 2)..j : toks[k].t # "f"}
        starts == {i \in 1..Len(toks) :
                      /\ toks[i].t \in {"s", "w"}
                      /\ toks[i].s = name
                      /\ TokAt(toks, i + 1) = COLON
                      /\ ends(i) # {}} IN
    IF starts = {} THEN [found |-> FALSE, group |-> ""]
    ELSE LET i == Min(starts) IN
         [found |-> TRUE, group |-> Joined(SubSeq(toks, i + 2, Min(ends(i)) - 1))]

\* The loop storing every expected field, null when the regex finds nothing.
ManualFields_with_nulls(toks, fields) ==
    [k \in {fields[i] : i \in 1..Len(fields)} |->
        IF FieldSearch(toks, k).found THEN JStr(FieldSearch(toks, k).group) ELSE JNull]

\* The loop over expected_fields that fills extracted_data from the regex.
ManualFields(toks, fields) ==
    LET hit == {i \in 1..Len(fields) : FieldSearch(toks, fields[i]).found} IN
    [k \in {fields[i] : i \in hit} |-> JStr(FieldSearch(toks, k).group)]

\* IdentifierExtractionResponse(extracted_identifiers=v): Dict[str, str].
IdentifiersOk(v) == IsObj(v) /\ \A k \in DOMAIN v.m : IsStr(v.m[k])

IdentifierExtractionResponse(idents, error_message) ==
    [kind |-> "IdentifierExtractionResponse",
     extracted_identifiers |-> idents,
     error_message |-> error_message]

ExtractBuild(v, tier) ==
    IF IdentifiersOk(v)
    THEN Returned(IdentifierExtractionResponse([k \in DOMAIN v.m |-> v.m[k].s], None), tier)
    ELSE Raised(Exc("ValidationError", "validation error for IdentifierExtractionResponse"), tier)

\* The body of the try block after the remote call returned raw_response.
ExtractTurn(req, raw_response) ==
    LET direct == json_loads(raw_response)
        json_match == BraceSearch(raw_response)
        inner == json_loads(json_match.group) IN
    IF direct.ok THEN ExtractBuild(direct.val, 1)
    ELSE IF json_match.found
         THEN IF inner.ok THEN ExtractBuild(inner.val, 2)
              ELSE ExtractBuild(JObj(ManualFields(raw_response,
                                                  expected_fields(req.document_type))), 3)
         ELSE Raised(Exc("ValueError", "Could not extract JSON from response"), 0)

(***************************************************************************)
(* verify_document_with_gemini                                             *)
(***************************************************************************)
VerificationResponse(discrepancies, field_confidences, overall, raw, error_message) ==
    [kind |-> "VerificationResponse",
     discrepancies |-> discrepancies,
     field_confidences |-> field_confidences,
     overall_verification_confidence |-> overall,
     raw_llm_response |-> raw,
     error_message |-> error_message]

\* The minimal response as a bare list instead of a mapping.
MinimalVerification_list == JArr(<<>>)
\* The minimal response of the innermost except clause.
MinimalVerification ==
    JObj(("discrepancies" :> JArr(<<>>)) @@ ("field_confidences" :> JArr(<<>>))
         @@ ("overall_verification_confidence" :> JNum("0.0")))

\* The response flagging a document that has discrepancies: the record that
\* lists any carries an error message as well.
VerifyBuild_flags_discrepancies(v, raw, tier) ==
    IF ~IsObj(v)
    THEN Raised(Exc("AttributeError", "object has no attribute 'get'"), tier)
    ELSE IF ~ListOk(v.m, "discrepancies", DiscrepancyOk)
    THEN Raised(Exc("ValidationError", "validation error for Discrepancy"), tier)
    ELSE IF ~ListOk(v.m, "field_confidences", FieldConfidenceOk)
    THEN Raised(Exc("ValidationError", "validation error for FieldConfidence"), tier)
    ELSE IF ~DefFloat(v.m, "overall_verification_confidence")
    THEN Raised(Exc("ValidationError", "validation error for VerificationResponse"), tier)
    ELSE Returned(VerificationResponse(
                      ListOf(v.m, "discrepancies", Discrepancy),
                      ListOf(v.m, "field_confidences", FieldConfidence),
                      FloatOrDefault(v.m, "overall_verification_confidence", 0),
                      <<raw>>,
                      IF ListOf(v.m, "discrepancies", Discrepancy) # <<>>
                      THEN <<"Discrepancies found">> ELSE None), tier)

VerifyBuild(v, raw, tier) ==
    IF ~IsObj(v)
    THEN Raised(Exc("AttributeError", "object has no attribute 'get'"), tier)
    ELSE IF ~ListOk(v.m, "discrepancies", DiscrepancyOk)
    THEN Raised(Exc("ValidationError", "validation error for Discrepancy"), tier)
    ELSE IF ~ListOk(v.m, "field_confidences", FieldConfidenceOk)
    THEN Raised(Exc("ValidationError", "validation error for FieldConfidence"), tier)
    ELSE IF ~DefFloat(v.m, "overall_verification_confidence")
    THEN Raised(Exc("ValidationError", "validation error for VerificationResponse"), tier)
    ELSE Returned(VerificationResponse(
                      ListOf(v.m, "discrepancies", Discrepancy),
                      ListOf(v.m, "field_confidences", FieldConfidence),
                      FloatOrDefault(v.m, "overall_verification_confidence", 0),
                      <<raw>>, None), tier)

VerifyTurn(req, raw_response_text) ==
    LET direct == json_loads(raw_response_text)
        json_match == BraceSearch(raw_response_text)
        inner == json_loads(json_match.group) IN
    IF direct.ok THEN VerifyBuild(direct.val, raw_response_text, 1)
    ELSE IF json_match.found
         THEN IF inner.ok THEN VerifyBuild(inner.val, raw_response_text, 2)
              ELSE VerifyBuild(MinimalVerification, raw_response_text, 3)
         ELSE Raised(Exc("ValueError", "Could not extract JSON from response"), 0)

(***************************************************************************)
(* classify_document_with_gemini                                           *)
(***************************************************************************)
ClassificationResponse(document_type, confidence, reasoning, error_message) ==
    [kind |-> "ClassificationResponse",
     document_type |-> document_type,
     confidence |-> confidence,
     reasoning |-> reasoning,
     error_message |-> error_message]

\* The leading run of word characters (\w+) of a string; "" when it starts
\* with none.
WordPrefix(s) ==
    CASE s = "Sales Quote" -> "Sales"
      [] s = "Proforma Invoice" -> "Proforma"
      [] s = "Job Shipment" -> "Job"
      [] s = "Delivery Note" -> "Delivery"
      [] s = "This is a Sales Quote" -> "This"
      [] s = "It is a Proforma Invoice" -> "It"
      [] s = "Sales Quote and Job Shipment" -> "Sales"
      [] s \in {"", "-5", "...", "<text>"} -> ""
      [] s = "0.9" -> "0"
      [] s = "1.5" -> "1"
      [] s = "0.0" -> "0"
      [] s = "0.7" -> "0"
      [] s = "1.2.3" -> "1"
      [] OTHER -> s

\* re.search of  documentType["']?\s*:\s*["']?(\w+)["']?
DocTypeSearch(toks) ==
    LET starts == {i \in 1..Len(toks) :
                      /\ toks[i].t \in {"s", "w"}
                      /\ toks[i].s = "documentType"
                      /\ TokAt(toks, i + 1) = COLON
                      /\ TokAt(toks, i + 2).t \in {"s", "n", "l", "w"}
                      /\ WordPrefix(TokAt(toks, i + 2).s) # ""} IN
    IF starts = {} THEN [found |-> FALSE, group |-> ""]
    ELSE [found |-> TRUE, group |-> WordPrefix(toks[Min(starts) + 2].s)]

\* Strings that end with the characters "confidence".
EndsWithConfidence(s) ==
    s \in {"confidence", "extraction_confidence", "match_assessment_confidence",
           "overall_verification_confidence"}
\* Strings made of digits and dots only that float() rejects.
DottedStrings == {"...", "1.2.3"}

\* re.search of  confidence["']?\s*:\s*([0-9.]+)  : the group is the run of
\* digits and dots that follows the colon directly.
ConfidenceSearch(toks) ==
    LET digits(tk) == \/ tk.t = "n" /\ tk.s \in NumericStrings \ {"-5"}
                      \/ tk.t = "w" /\ tk.s \in DottedStrings
        starts == {i \in 1..Len(toks) :
                      /\ toks[i].t \in {"s", "w"}
                      /\ EndsWithConfidence(toks[i].s)
                      /\ TokAt(toks, i + 1) = COLON
                      /\ digits(TokAt(toks, i + 2))} IN
    IF starts = {} THEN [found |-> FALSE, group |-> ""]
    ELSE [found |-> TRUE, group |-> toks[Min(starts) + 2].s]

\* The mapping the innermost except clause assembles from the three regexes;
\* float() of a run of digits and dots that is no number raises ValueError.
ManualClassification(toks) ==
    LET dt == DocTypeSearch(toks)
        cf == ConfidenceSearch(toks)
        rs == FieldSearch(toks, "reasoning") IN
    [raised |-> cf.found /\ cf.group \in DottedStrings,
     val |-> JObj(("documentType" :> JStr(IF dt.found THEN dt.group ELSE "UNKNOWN"))
                  @@ ("confidence" :> JNum(IF cf.found THEN cf.group ELSE "0.0"))
                  @@ ("reasoning" :> JStr(IF rs.found THEN rs.group
                                          ELSE "No reasoning provided")))]

KeywordMapping(document_type, confidence, reasoning) ==
    JObj(("documentType" :> JStr(document_type)) @@ ("confidence" :> JNum(confidence))
         @@ ("reasoning" :> JStr(reasoning)))

\* The keyword branch: no '{' ... '}' in the text.
KeywordClassification(toks) ==
    IF TextContains(toks, "salesquote") \/ TextContains(toks, "sales quote")
    THEN KeywordMapping("SalesQuote", "0.7", "Extracted from text response")
    ELSE IF TextContains(toks, "proformainvoice") \/ TextContains(toks, "proforma invoice")
    THEN KeywordMapping("ProformaInvoice", "0.7", "Extracted from text response")
    ELSE IF \/ TextContains(toks, "jobconsumption")
            \/ TextContains(toks, "job consumption")
            \/ TextContains(toks, "job shipment")
    THEN KeywordMapping("JobConsumption", "0.7", "Extracted from text response")
    ELSE KeywordMapping("UNKNOWN", "0.0", "Could not determine document type")

\* Normalize the document type (doc_type.strip().lower() in [...]).
NormalizeDocType(doc_type) ==
    LET l == Lower(doc_type) IN
    IF l \in {"salesquote", "sales quote", "sq"} THEN "SalesQuote"
    ELSE IF l \in {"proformainvoice", "proforma invoice", "proforma", "pi"}
    THEN "ProformaInvoice"
    ELSE IF l \in {"jobconsumption", "job consumption", "job shipment", "jobshipment", "jc"}
    THEN "JobConsumption"
    ELSE "UNKNOWN"

\* float(x) with ValueError and TypeError caught as 0.0.
CoerceConfidence(v) ==
    CASE v.ty = "num" -> FloatOf(v.s)
      [] v.ty = "str" -> IF v.s \in NumericStrings THEN FloatOf(v.s) ELSE 0
      [] v.ty = "bool" -> IF v.s = "true" THEN 100 ELSE 0
      [] OTHER -> 0

\* bool(x) of a decoded value.
Truthy(v) ==
    CASE v.ty = "str" -> v.s # ""
      [] v.ty = "num" -> FloatOf(v.s) # 0
      [] v.ty = "bool" -> v.s = "true"
      [] v.ty = "arr" -> Len(v.a) > 0
      [] v.ty = "obj" -> DOMAIN v.m # {}
      [] OTHER -> FALSE

\* Normalization of classification_data and the construction of the response.
ClassifyBuild(v, tier) ==
    IF ~IsObj(v)
    THEN Raised(Exc("TypeError", "classification_data is not a mapping"), tier)
    ELSE LET m == v.m
             typed == Has(m, "documentType") /\ ~IsStr(m["documentType"])
             document_type == IF Has(m, "documentType")
                              THEN NormalizeDocType(m["documentType"].s)
                              ELSE "UNKNOWN"
             confidence == IF Has(m, "confidence") THEN CoerceConfidence(m["confidence"])
                           ELSE 0
             defaulted == ~Has(m, "reasoning") \/ ~Truthy(m["reasoning"]) IN
         IF typed \/ (~defaulted /\ ~IsStr(m["reasoning"]))
         THEN Raised(Exc("ValidationError", "validation error for ClassificationResponse"),
                     tier)
         ELSE Returned(ClassificationResponse(
                           document_type, confidence,
                           <<IF defaulted THEN "No reasoning provided"
                             ELSE m["reasoning"].s>>,
                           None), tier)

\* The keyword heuristic consulted ahead of the decoders.
ClassifyTurn_keywords_first(req, raw_response_text) ==
    LET direct == json_loads(raw_response_text)
        json_match == BraceSearch(raw_response_text)
        inner == json_loads(json_match.group)
        keywords == KeywordClassification(raw_response_text) IN
    IF keywords.m["documentType"].s # "UNKNOWN" THEN ClassifyBuild(keywords, 4)
    ELSE IF direct.ok THEN ClassifyBuild(direct.val, 1)
    ELSE IF json_match.found /\ inner.ok THEN ClassifyBuild(inner.val, 2)
    ELSE ClassifyBuild(keywords, 4)

ClassifyTurn(req, raw_response_text) ==
    LET direct == json_loads(raw_response_text)
        json_match == BraceSearch(raw_response_text)
        inner == json_loads(json_match.group)
        manual == ManualClassification(raw_response_text) IN
    IF direct.ok THEN ClassifyBuild(direct.val, 1)
    ELSE IF json_match.found
         THEN IF inner.ok THEN ClassifyBuild(inner.val, 2)
              ELSE IF manual.raised
                   THEN Raised(Exc("ValueError", "could not convert string to float"), 3)
                   ELSE ClassifyBuild(manual.val, 3)
         ELSE ClassifyBuild(KeywordClassification(raw_response_text), 4)

(***************************************************************************)
(* _validate_extracted_identifiers and _create_missing_identifier_error    *)
(***************************************************************************)
required_identifiers(doc_type_lower) ==
    CASE doc_type_lower = "salesquote" -> <<"sales_quote_number", "salesQuoteNo">>
      [] doc_type_lower = "proformainvoice" -> <<"tax_invoice_number", "taxInvoiceNo">>
      [] doc_type_lower = "jobconsumption" -> <<"job_number", "jobNo">>
      [] OTHER -> <<>>

\* The one generic message for every document type.
create_generic_error(document_type, missing_identifiers) ==
    <<"Missing required identifiers from document">>

\* The messages joined by "; ", as the sequence of the joined messages; with
\* none, the one generic message.
create_missing_identifier_error(document_type, missing_identifiers) ==
    LET l == Lower(document_type)
        msg(identifier) ==
            IF l = "salesquote"
            THEN IF \/ Contains(Lower(identifier), "sales_quote_number")
                    \/ Contains(Lower(identifier), "quote")
                 THEN <<"Cannot find Sales Quote Number from Sales Quote document">>
                 ELSE <<>>
            ELSE IF l = "proformainvoice"
            THEN IF \/ Contains(Lower(identifier), "tax_invoice_number")
                    \/ Contains(Lower(identifier), "invoice")
                 THEN <<"Cannot find Tax Invoice Number from Proforma Invoice document - please check Proforma Invoice">>
                 ELSE <<>>
            ELSE IF l = "jobconsumption"
            THEN IF \/ Contains(Lower(identifier), "job_number")
                    \/ Contains(Lower(identifier), "job")
                 THEN <<"Cannot find Job Number from Job Consumption document">>
                 ELSE <<>>
            ELSE <<"Cannot find required identifier from document">>
        RECURSIVE collect(_)
        collect(i) == IF i > Len(missing_identifiers) THEN <<>>
                      ELSE msg(missing_identifiers[i]) \o collect(i + 1)
        error_messages == collect(1) IN
    IF error_messages # <<>> THEN error_messages
    ELSE <<"Missing required identifiers from document">>

\* A validator that counts a required key present with an empty value.
validate_key_present(document_type, extracted_identifiers) ==
    LET required_fields == required_identifiers(Lower(document_type))
        found_any == \E i \in 1..Len(required_fields) :
                        required_fields[i] \in DOMAIN extracted_identifiers IN
    IF required_fields = <<>> \/ found_any THEN [is_valid |-> TRUE, error_message |-> <<>>]
    ELSE [is_valid |-> FALSE,
          error_message |-> create_missing_identifier_error(document_type, required_fields)]

\* A validator that accepts whatever was extracted.
validate_always_valid(document_type, extracted_identifiers) ==
    [is_valid |-> TRUE, error_message |-> <<>>]
\* (is_valid, error_message); extracted_identifiers maps names to strings.
validate_extracted_identifiers(document_type, extracted_identifiers) ==
    LET required_fields == required_identifiers(Lower(document_type))
        found_any == \E i \in 1..Len(required_fields) :
                        /\ required_fields[i] \in DOMAIN extracted_identifiers
                        /\ extracted_identifiers[required_fields[i]] # "" IN
    IF required_fields = <<>> THEN [is_valid |-> TRUE, error_message |-> <<>>]
    ELSE IF found_any THEN [is_valid |-> TRUE, error_message |-> <<>>]
    ELSE [is_valid |-> FALSE,
          error_message |-> create_missing_identifier_error(document_type, required_fields)]

(***************************************************************************)
(* classify_and_verify_with_gemini                                         *)
(***************************************************************************)
ClassifyAndVerifyResponse(document_type, classification_confidence, classification_reasoning, discrepancies, field_confidences, overall, raw, error_message) ==
    [kind |-> "ClassifyAndVerifyResponse",
     document_type |-> document_type,
     classification_confidence |-> classification_confidence,
     classification_reasoning |-> classification_reasoning,
     discrepancies |-> discrepancies,
     field_confidences |-> field_confidences,
     overall_verification_confidence |-> overall,
     raw_llm_response |-> raw,
     error_message |-> error_message]

\* A single key of any name taken for the initial classification.
IsInitialClassification_single_key(erp_data) == Cardinality(erp_data) = 1
\* is_initial_classification
IsInitialClassification(erp_data) == "jobNo" \in erp_data /\ Cardinality(erp_data) = 1

\* schemas.FieldConfidence(field_name=..., confidence=..., extracted_value=...,
\* verified=False): the keyword arguments the function passes.  The class
\* requires extraction_confidence, which is not among them, and ignores the
\* argument confidence, so the construction is rejected.
IdentifierFieldConfidenceOk ==
    FieldConfidenceOk(JObj(("field_name" :> JStr("Quote No")) @@ ("confidence" :> JNum("0.9"))
                           @@ ("extracted_value" :> JStr("SQ1007475"))
                           @@ ("verified" :> JBool("false"))))

\* "sales quote" / "proforma invoice" / "job shipment" in document_type.lower()
MapDocumentType(document_type) ==
    IF Contains(Lower(document_type), "sales quote") THEN "SalesQuote"
    ELSE IF Contains(Lower(document_type), "proforma invoice") THEN "ProformaInvoice"
    ELSE IF Contains(Lower(document_type), "job shipment") THEN "JobConsumption"
    ELSE "UNKNOWN"

\* doc.get(key, default) of one entry of the documents array.
DocGet(doc, key, default) == IF Has(doc.m, key) THEN doc.m[key] ELSE JStr(default)

\* The loop body over one entry doc raises: doc has no get, its document_type
\* has no lower, or its identifier_value is truthy and then either the label
\* has no lower or the FieldConfidence construction is rejected.
DocEntryRaises(doc) ==
    \/ ~IsObj(doc)
    \/ ~IsStr(DocGet(doc, "document_type", "UNKNOWN"))
    \/ /\ Truthy(DocGet(doc, "identifier_value", ""))
       /\ \/ ~IsStr(DocGet(doc, "identifier_label", ""))
          \/ ~IdentifierFieldConfidenceOk

\* Determine the primary document type.
PrimaryDocumentType(document_types) ==
    LET has(ty) == \E i \in 1..Len(document_types) : document_types[i] = ty IN
    IF has("SalesQuote") THEN "SalesQuote"
    ELSE IF has("ProformaInvoice") THEN "ProformaInvoice"
    ELSE IF has("JobConsumption") THEN "JobConsumption"
    ELSE "UNKNOWN"

\* The initial-classification branch after a successful decode of v.
InitialBuild(v, raw, tier) ==
    LET documents_array == IF IsArr(v) THEN v.a ELSE <<v>>
        document_types == [i \in 1..Len(documents_array) |->
                              MapDocumentType(DocGet(documents_array[i],
                                                     "document_type", "UNKNOWN").s)] IN
    IF \E i \in 1..Len(documents_array) : DocEntryRaises(documents_array[i])
    THEN Raised(Exc("Exception", "failure while reading the documents array"), tier)
    ELSE Returned(ClassifyAndVerifyResponse(
                      PrimaryDocumentType(document_types), 90,
                      <<"Documents identified: ">>, <<>>, <<>>, 0, <<raw>>, None), tier)

\* The verification branch after a successful decode of v.
VerificationBuild(v, raw, tier) ==
    IF ~IsObj(v)
    THEN Raised(Exc("AttributeError", "object has no attribute 'get'"), tier)
    ELSE IF \/ ~ListOk(v.m, "discrepancies", DiscrepancyOk)
            \/ ~ListOk(v.m, "fieldConfidences", FieldConfidenceOk)
            \/ ~DefStr(v.m, "documentType")
            \/ ~DefFloat(v.m, "classificationConfidence")
            \/ ~OptStr(v.m, "classificationReasoning")
            \/ ~DefFloat(v.m, "overallVerificationConfidence")
    THEN Raised(Exc("ValidationError", "validation error for ClassifyAndVerifyResponse"),
                tier)
    ELSE Returned(ClassifyAndVerifyResponse(
                      StrOrDefault(v.m, "documentType", "UNKNOWN"),
                      FloatOrDefault(v.m, "classificationConfidence", 0),
                      IF Has(v.m, "classificationReasoning")
                      THEN StrOrNone(v.m, "classificationReasoning")
                      ELSE <<"No reasoning provided">>,
                      ListOf(v.m, "discrepancies", Discrepancy),
                      ListOf(v.m, "fieldConfidences", FieldConfidence),
                      FloatOrDefault(v.m, "overallVerificationConfidence", 0),
                      <<raw>>, None), tier)

\* The document type the except clause reads from the text.
KeywordDocumentType(toks) ==
    IF TextContains(toks, "salesquote") \/ TextContains(toks, "sales quote")
    THEN "SalesQuote"
    ELSE IF TextContains(toks, "proformainvoice") \/ TextContains(toks, "proforma invoice")
    THEN "ProformaInvoice"
    ELSE IF \/ TextContains(toks, "jobconsumption")
            \/ TextContains(toks, "job consumption")
            \/ TextContains(toks, "job shipment")
    THEN "JobConsumption"
    ELSE "UNKNOWN"

\* The document type of the regex fallback (spaced keywords only).
FallbackDocumentType(toks) ==
    IF TextContains(toks, "sales quote") THEN "SalesQuote"
    ELSE IF TextContains(toks, "proforma invoice") THEN "ProformaInvoice"
    ELSE IF TextContains(toks, "job shipment") THEN "JobConsumption"
    ELSE "UNKNOWN"

\* re.search of  \[\s*\{[^]]*\}\s*\]  : a '[' directly followed by '{', and a
\* '}' directly followed by the first ']' after them.
ArraySearch(toks) ==
    LET close(i) == {j \in (i + 1)..Len(toks) : toks[j] = RSB}
        starts == {i \in 1..Len(toks) :
                      /\ toks[i] = LSB
                      /\ TokAt(toks, i + 1) = LB
                      /\ close(i) # {}
                      /\ Min(close(i)) > i + 2
                      /\ toks[Min(close(i)) - 1] = RB} IN
    IF starts = {} THEN [found |-> FALSE, group |-> <<>>]
    ELSE [found |-> TRUE,
          group |-> SubSeq(toks, Min(starts), Min(close(Min(starts))))]

\* The loop over the items of the array found in the text raises.
ArrayItemRaises(item) ==
    \/ ~IsObj(item)
    \/ /\ Truthy(DocGet(item, "identifier_value", ""))
       /\ \/ ~IsStr(DocGet(item, "identifier_label", ""))
          \/ ~IdentifierFieldConfidenceOk

\* A label pattern at the end of a bare word, then colons, then a token that
\* starts with a character of the group's class.
LabelThenValue(toks, labels, ValueStart(_)) ==
    \E i \in 1..Len(toks) :
        /\ toks[i].t = "w"
        /\ Lower(toks[i].s) \in labels
        /\ \E j \in (i + 1)..Len(toks) :
              /\ \A k \in (i + 1)..(j - 1) : toks[k] = COLON
              /\ ValueStart(toks[j])

AlnumStart(tk) == tk.t \in {"w", "n", "l"} /\ WordPrefix(tk.s) # ""
DigitStart(tk) == tk.t \in {"w", "n"} /\ tk.s \in {"1595499", "0.9", "1.5", "0.0", "1", "0",
                                                    "0.7", "0.5", "1.2.3"}
\* Strings inside which the quote-number pattern matches ("sq" then a letter
\* or digit), the job pattern matches ("jc", or "job shipment no", then a letter
\* or digit), or six digits stand in a row.
QuoteIdInside(s) == s \in {"SQ1007475", "SalesQuote", "salesQuoteNo"}
JobIdInside(s) == s \in {"JC149529", "Job Shipment Number"}
SixDigitsInside(s) == s \in {"1595499", "SQ1007475", "JC149529"}
InText(toks, Inside(_)) == \E i \in 1..Len(toks) : Inside(toks[i].s)

\* The regex fallback appends a FieldConfidence: an identifier_value was found.
FallbackFindsIdentifier(toks) ==
    LET document_type == FallbackDocumentType(toks)
        quote_match == \/ InText(toks, QuoteIdInside)
                       \/ LabelThenValue(toks, {"sales quote number", "quote no", "sq"},
                                         AlnumStart)
        invoice_match == LabelThenValue(toks, {"tax invoice number", "invoice no",
                                               "proforma"}, DigitStart)
        job_match == \/ InText(toks, JobIdInside)
                     \/ LabelThenValue(toks, {"job shipment no", "job shipment number", "jc"},
                                       AlnumStart) IN
    \/ quote_match
    \/ invoice_match
    \/ document_type = "ProformaInvoice" /\ InText(toks, SixDigitsInside)
    \/ job_match

\* The clause with a rejection that keeps only the message.
DecodeErrorBuild_discards(is_initial, raw) ==
    LET array_match == ArraySearch(raw)
        json_array == json_loads(array_match.group)
        document_type == IF is_initial THEN FallbackDocumentType(raw)
                         ELSE KeywordDocumentType(raw)
        validation == validate_extracted_identifiers(document_type, EmptyDict) IN
    IF /\ is_initial
       /\ \/ /\ array_match.found
             /\ json_array.ok
             /\ \E i \in 1..Len(json_array.val.a) : ArrayItemRaises(json_array.val.a[i])
          \/ FallbackFindsIdentifier(raw) /\ ~IdentifierFieldConfidenceOk
    THEN Raised(Exc("Exception", "failure while reading identifiers from the text"), 4)
    ELSE IF is_initial /\ document_type # "UNKNOWN" /\ ~validation.is_valid
    THEN Returned(ClassifyAndVerifyResponse(
                      "UNKNOWN", 0, None, <<>>, <<>>, 0, None, validation.error_message), 4)
    ELSE Returned(ClassifyAndVerifyResponse(
                      document_type, 50, <<"Extracted from text response">>,
                      <<>>, <<>>, 0, <<raw>>, None), 4)

\* The except json.JSONDecodeError clause.  Every append to field_confidences
\* constructs a FieldConfidence, so the list is empty wherever the clause goes
\* on without raising, and its early return on a non-empty list is not taken.
DecodeErrorBuild(is_initial, raw) ==
    LET array_match == ArraySearch(raw)
        json_array == json_loads(array_match.group)
        document_type == IF is_initial THEN FallbackDocumentType(raw)
                         ELSE KeywordDocumentType(raw)
        validation == validate_extracted_identifiers(document_type, EmptyDict) IN
    IF /\ is_initial
       /\ \/ /\ array_match.found
             /\ json_array.ok
             /\ \E i \in 1..Len(json_array.val.a) : ArrayItemRaises(json_array.val.a[i])
          \/ FallbackFindsIdentifier(raw) /\ ~IdentifierFieldConfidenceOk
    THEN Raised(Exc("Exception", "failure while reading identifiers from the text"), 4)
    ELSE IF is_initial /\ document_type # "UNKNOWN" /\ ~validation.is_valid
    THEN Returned(ClassifyAndVerifyResponse(
                      document_type, 50,
                      <<"Document classified but missing required identifiers">>,
                      <<>>, <<>>, 0, <<raw>>, validation.error_message), 4)
    ELSE Returned(ClassifyAndVerifyResponse(
                      document_type, 50, <<"Extracted from text response">>,
                      <<>>, <<>>, 0, <<raw>>, None), 4)

ClassifyAndVerifyTurn(req, raw_response_text) ==
    LET is_initial == IsInitialClassification(req.erp_data)
        json_match == FenceSearch(raw_response_text)
        decoded == IF json_match.found THEN json_loads(json_match.group)
                   ELSE json_loads(raw_response_text)
        tier == IF json_match.found THEN 2 ELSE 1 IN
    IF decoded.ok
    THEN IF is_initial THEN InitialBuild(decoded.val, raw_response_text, tier)
         ELSE VerificationBuild(decoded.val, raw_response_text, tier)
    ELSE DecodeErrorBuild(is_initial, raw_response_text)

(***************************************************************************)
(* The service: configuration, requests and the candidate-model loop.      *)
(***************************************************************************)
\* The hard-coded fallback of every model_names list.
FallbackModel == "gemini-2.0-flash-lite-001"
\* The list with the fallback ahead of the configured model.
model_names_reversed(configured) == <<FallbackModel, configured>>
\* The list with a third candidate.
model_names_three(configured) == <<configured, FallbackModel, "gemini-1.5-flash-001">>
\* model_names
model_names(configured) == <<configured, FallbackModel>>

Ops == {"ExtractIdentifiers", "Verify", "Classify", "ClassifyAndVerify"}

\* The try block of the operation's loop, after the call returned text.
Turn(req, text) ==
    CASE req.op = "ExtractIdentifiers" -> ExtractTurn(req, text)
      [] req.op = "Verify" -> VerifyTurn(req, text)
      [] req.op = "Classify" -> ClassifyTurn(req, text)
      [] req.op = "ClassifyAndVerify" -> ClassifyAndVerifyTurn(req, text)

\* The record of a request that ends before any candidate is tried.
ErrorRecord(op, msg, raw) ==
    CASE op = "ExtractIdentifiers" -> IdentifierExtractionResponse(EmptyDict, msg)
      [] op = "Verify" -> VerificationResponse(<<>>, <<>>, 0, raw, msg)
      [] op = "Classify" -> ClassificationResponse("UNKNOWN", 0, None, msg)
      [] op = "ClassifyAndVerify" ->
            ClassifyAndVerifyResponse("UNKNOWN", 0, None, <<>>, <<>>, 0, raw, msg)

AllFailedPrefix(op) ==
    CASE op = "ExtractIdentifiers" -> "All Gemini models failed. Last error: "
      [] op = "Verify" -> "All Gemini models failed for document verification. Last error: "
      [] op = "Classify" ->
            "All Gemini models failed for document classification. Last error: "
      [] op = "ClassifyAndVerify" ->
            "All Gemini models failed for classification and verification. Last error: "

\* The loop re-raising the last error instead of returning a record.
AllFailedRecord_reraise(op, last_error, raw_response_text) == NoRecord
\* The record returned after the loop: every candidate failed.
AllFailedRecord(op, last_error, raw_response_text) ==
    ErrorRecord(op, <<AllFailedPrefix(op), ErrStr(last_error)>>,
                IF op = "ExtractIdentifiers" \/ op = "Classify" THEN None
                ELSE raw_response_text)

\* raw_response_text before the loop: "" in classify_and_verify, None elsewhere.
InitialRawText(op) == IF op = "ClassifyAndVerify" THEN <<<<>>>> ELSE None

\* The checks before the loop without the one of the flag: an operation
\* entered before initialization goes on to its loop.
EarlyReturn_unguarded(initialized, req) ==
    IF req.op = "Verify" /\ Lower(req.document_type) \in {"combined", "all"}
    THEN ErrorRecord(req.op,
                     <<"Cross-document verification is orchestrated by the backend. This path should not be directly called for combined checks.">>,
                     None)
    ELSE IF /\ req.op = "ClassifyAndVerify"
            /\ \A i \in 1..Len(req.document_images) : ~req.document_images[i]
    THEN ErrorRecord(req.op, <<"No valid images provided">>, None)
    ELSE NoRecord

\* The checks before the loop with the one of the images made by every
\* operation, not by classify_and_verify alone.
EarlyReturn_images_for_all(initialized, req) ==
    IF ~initialized
    THEN ErrorRecord(req.op, <<"Vertex AI client not initialized.">>, None)
    ELSE IF req.op = "Verify" /\ Lower(req.document_type) \in {"combined", "all"}
    THEN ErrorRecord(req.op,
                     <<"Cross-document verification is orchestrated by the backend. This path should not be directly called for combined checks.">>,
                     None)
    ELSE IF \A i \in 1..Len(req.document_images) : ~req.document_images[i]
    THEN ErrorRecord(req.op, <<"No valid images provided">>, None)
    ELSE NoRecord

\* The checks before the loop with the document type of verify compared as
\* it was sent, without lower().
EarlyReturn_case_sensitive(initialized, req) ==
    IF ~initialized
    THEN ErrorRecord(req.op, <<"Vertex AI client not initialized.">>, None)
    ELSE IF req.op = "Verify" /\ req.document_type \in {"combined", "all"}
    THEN ErrorRecord(req.op,
                     <<"Cross-document verification is orchestrated by the backend. This path should not be directly called for combined checks.">>,
                     None)
    ELSE IF /\ req.op = "ClassifyAndVerify"
            /\ \A i \in 1..Len(req.document_images) : ~req.document_images[i]
    THEN ErrorRecord(req.op, <<"No valid images provided">>, None)
    ELSE NoRecord

\* The checks an operation makes before its loop; the record it returns at
\* once, or NoRecord when it goes on to the loop.
EarlyReturn(initialized, req) ==
    IF ~initialized
    THEN ErrorRecord(req.op, <<"Vertex AI client not initialized.">>, None)
    ELSE IF req.op = "Verify" /\ Lower(req.document_type) \in {"combined", "all"}
    THEN ErrorRecord(req.op,
                     <<"Cross-document verification is orchestrated by the backend. This path should not be directly called for combined checks.">>,
                     None)
    ELSE IF /\ req.op = "ClassifyAndVerify"
            /\ \A i \in 1..Len(req.document_images) : ~req.document_images[i]
    THEN ErrorRecord(req.op, <<"No valid images provided">>, None)
    ELSE NoRecord

VARIABLES
    vertex_ai_initialized,  \* services._vertex_ai_initialized
    started,                \* the application's startup hook has run
    init_outcome,           \* what the latest call of init_vertexai did
    gemini_model_name,      \* settings.gemini_model_name
    rq,                     \* the requests, by id: inputs, position and locals
    validation              \* a call of _validate_extracted_identifiers

vars == <<vertex_ai_initialized, started, init_outcome, gemini_model_name, rq, validation>>

\* One attempt as the loop logs it.
Attempt(model, i) == [model |-> model, idx |-> i, outcome |-> "in flight",
                      error |-> NoExc, text |-> None, tier |-> 0]

NewRequest(req) ==
    [request |-> req, pc |-> "PENDING", idx |-> 0, last_error |-> NoExc,
     raw_response_text |-> InitialRawText(req.op), response |-> NoRecord,
     is_initial_classification |-> None, ready_at_entry |-> None, attempts |-> <<>>,
     records |-> 0, http_status |-> 0]

(***************************************************************************)
(* The texts a candidate model may return.  A text is a body, bare or      *)
(* wrapped in prose and markdown fences.                                   *)
(***************************************************************************)
RECURSIVE JoinComma(_)
JoinComma(parts) ==
    IF parts = <<>> THEN <<>>
    ELSE IF Len(parts) = 1 THEN parts[1]
    ELSE parts[1] \o <<COMMA>> \o JoinComma(Tail(parts))
ObjT(members) == <<LB>> \o JoinComma(members) \o <<RB>>
ArrT(elements) == <<LSB>> \o JoinComma(elements) \o <<RSB>>
KV(k, v) == <<S(k), COLON>> \o v

\* Valid JSON objects an ExtractIdentifiers answer may be.
ExtractObjects ==
    {ObjT(<<KV("salesQuoteNo", <<S("SQ1007475")>>), KV("customerName", <<S("ACME")>>)>>),
     ObjT(<<KV("proformaInvoiceNo", <<S("1595499")>>)>>),
     ObjT(<<KV("salesQuoteNo", <<L("null")>>)>>)}
ExtractBodies ==
    ExtractObjects \cup
    {<<LB, S("salesQuoteNo"), COLON, S("SQ1007475")>>,
     <<LB, W("salesQuoteNo"), COLON, W("SQ1007475"), RB>>,
     <<N("0.9")>>,
     <<>>}

VerifyObjects ==
    {ObjT(<<KV("discrepancies",
               ArrT(<<ObjT(<<KV("field_name", <<S("Quantity")>>),
                             KV("severity", <<S("high")>>)>>)>>)),
            KV("field_confidences",
               ArrT(<<ObjT(<<KV("field_name", <<S("Quantity")>>),
                             KV("extraction_confidence", <<N("0.9")>>)>>)>>)),
            KV("overall_verification_confidence", <<N("0.9")>>)>>),
     ObjT(<<KV("discrepancies",
               ArrT(<<ObjT(<<KV("severity", <<S("urgent")>>)>>)>>))>>),
     ObjT(<<KV("discrepancies",
               ArrT(<<ObjT(<<KV("field_name", <<S("Quantity")>>),
                             KV("severity", <<S("urgent")>>)>>)>>))>>),
     ObjT(<<KV("field_confidences",
               ArrT(<<ObjT(<<KV("field_name", <<S("Quantity")>>),
                             KV("confidence", <<N("0.9")>>)>>)>>)),
            KV("overall_verification_confidence", <<N("1.5")>>)>>),
     ObjT(<<>>)}
VerifyBodies ==
    VerifyObjects \cup
    {<<LB, S("discrepancies"), COLON, LSB, RSB>>,
     ArrT(<<ObjT(<<>>)>>),
     <<>>}

ClassifyObjects ==
    {ObjT(<<KV("documentType", <<S("Sales Quote")>>), KV("confidence", <<N("0.9")>>),
            KV("reasoning", <<S("Header")>>)>>),
     ObjT(<<KV("documentType", <<S("Delivery Note")>>), KV("confidence", <<N("1.5")>>),
            KV("reasoning", <<S("")>>)>>),
     ObjT(<<KV("documentType", <<L("null")>>), KV("confidence", <<S("abc")>>)>>),
     ObjT(<<KV("documentType", <<S("Job Shipment")>>), KV("confidence", <<N("-5")>>)>>)}
ClassifyBodies ==
    ClassifyObjects \cup
    {<<LB, W("documentType"), COLON, W("SalesQuote"), COMMA, W("confidence"), COLON,
       N("0.9"), RB>>,
     <<W("It is a Proforma Invoice")>>,
     <<W("Sales Quote and Job Shipment")>>,
     <<S("Sales Quote")>>,
     <<LB, W("confidence"), COLON, W("1.2.3"), RB>>,
     <<>>}

\* One entry of the array the initial-classification prompt asks for.
DocEntry(document_type, label, value) ==
    ObjT(<<KV("document_type", <<S(document_type)>>), KV("identifier_label", <<S(label)>>),
           KV("identifier_value", <<S(value)>>)>>)
DocEntries ==
    {DocEntry("Sales Quote", "Sales Quote Number", "SQ1007475"),
     DocEntry("Proforma Invoice", "Tax Invoice Number", ""),
     DocEntry("Job Shipment", "Job Shipment Number", "JC149529")}
\* The arrays of at most MaxDocs entries.
MaxDocs == 1
RECURSIVE EntrySeqs(_)
EntrySeqs(n) ==
    IF n = 0 THEN {<<>>}
    ELSE EntrySeqs(n - 1) \cup
         {Append(q, e) : q \in {x \in EntrySeqs(n - 1) : Len(x) = n - 1}, e \in DocEntries}
InitialArrays == {ArrT(q) : q \in EntrySeqs(MaxDocs)}

ClassifyAndVerifyObjects ==
    {ObjT(<<KV("documentType", <<S("SalesQuote")>>),
            KV("classificationConfidence", <<N("0.9")>>),
            KV("discrepancies",
               ArrT(<<ObjT(<<KV("field_name", <<S("Quantity")>>)>>)>>)),
            KV("overallVerificationConfidence", <<N("0.9")>>)>>),
     ObjT(<<KV("documentType", <<S("Sales Quote")>>),
            KV("fieldConfidences",
               ArrT(<<ObjT(<<KV("field_name", <<S("Quantity")>>),
                             KV("confidence", <<N("0.9")>>)>>)>>))>>),
     ObjT(<<KV("documentType", <<S("Delivery Note")>>),
            KV("classificationReasoning", <<S("")>>),
            KV("discrepancies",
               ArrT(<<ObjT(<<KV("field_name", <<S("Quantity")>>),
                             KV("severity", <<S("urgent")>>)>>)>>))>>),
     DocEntry("Proforma Invoice", "Tax Invoice Number", ""),
     DocEntry("Sales Quote", "Sales Quote Number", "SQ1007475")}
ClassifyAndVerifyBodies ==
    ClassifyAndVerifyObjects \cup InitialArrays \cup
    {<<W("This is a Sales Quote")>>,
     <<W("Job Shipment"), W("JC149529")>>,
     <<LB, S("documentType"), COLON>>,
     <<>>}

Bodies(op) ==
    CASE op = "ExtractIdentifiers" -> ExtractBodies
      [] op = "Verify" -> VerifyBodies
      [] op = "Classify" -> ClassifyBodies
      [] op = "ClassifyAndVerify" -> ClassifyAndVerifyBodies

Intro == <<W("Result")>>
Outro == <<W("Done")>>
BraceProse == <<W("Format"), LB, W("fields"), RB>>
Fenced(tag, body) == <<F(tag)>> \o body \o <<FencePlain>>

\* The shapes a body is returned in.
Shapes(body) ==
    {body,
     Intro \o body \o Outro,
     Fenced("json", body),
     Fenced("", body),
     Intro \o Fenced("json", body) \o Outro,
     BraceProse \o Fenced("json", body),
     Fenced("json", body) \o BraceProse,
     BraceProse \o body}

\* The arrays of more than one entry come bare or in a tagged fence.
FewShapes(body) == {body, Fenced("json", body)}
LongArray(body) == body \in InitialArrays /\ body \notin {ArrT(q) : q \in EntrySeqs(1)}

Texts(op) ==
    UNION {IF LongArray(b) THEN FewShapes(b) ELSE Shapes(b) : b \in Bodies(op)}

\* What a failing remote call raises.
TransportErrors == {Exc("ServiceUnavailable", "503 unavailable"),
                    Exc("PermissionDenied", "403 permission denied")}

(***************************************************************************)
(* Requests.                                                               *)
(***************************************************************************)
MaxImages == 1
\* document_images, each image by whether its base64 decodes.
ImageSeqs == UNION {[1..n -> BOOLEAN] : n \in 0..MaxImages}

Request(op, document_type, erp_data, images) ==
    [op |-> op, document_type |-> document_type, erp_data |-> erp_data,
     document_images |-> images]

\* Only classify_and_verify looks at whether an image decodes; the other
\* operations are given one decodable image.
Requests ==
    {Request("ExtractIdentifiers", d, {}, <<TRUE>>) :
        d \in {"SalesQuote", "proformainvoice", "Delivery Note"}}
    \cup {Request("Verify", d, {"salesQuoteHeader"}, <<TRUE>>) :
        d \in {"SalesQuote", "Combined", "ALL", "Delivery Note"}}
    \cup {Request("Classify", "", {}, <<TRUE>>)}
    \cup {Request("ClassifyAndVerify", "", e, i) :
        e \in {{"jobNo"}, {"jobId"}, {"jobNo", "salesQuoteHeader"}}, i \in ImageSeqs}

\* The requests in flight together, and the answers their calls may return:
\* one that yields a record and one that makes the candidate fail.
MaxRequests == 2
ConcurrentRequests ==
    {Request("ExtractIdentifiers", "SalesQuote", {}, <<TRUE>>),
     Request("Verify", "SalesQuote", {"salesQuoteHeader"}, <<TRUE>>),
     Request("Classify", "", {}, <<TRUE>>),
     Request("ClassifyAndVerify", "", {"jobNo"}, <<TRUE>>)}
ConcurrentTexts(op) ==
    CASE op = "ExtractIdentifiers" ->
            {ObjT(<<KV("proformaInvoiceNo", <<S("1595499")>>)>>), <<N("0.9")>>}
      [] op = "Verify" ->
            {ObjT(<<>>), ArrT(<<ObjT(<<>>)>>)}
      [] op = "Classify" ->
            {<<W("It is a Proforma Invoice")>>,
             <<LB, W("confidence"), COLON, W("1.2.3"), RB>>}
      [] op = "ClassifyAndVerify" ->
            {<<W("This is a Sales Quote")>>,
             ArrT(<<DocEntry("Sales Quote", "Sales Quote Number", "SQ1007475")>>)}
ConcurrentErrors == {Exc("ServiceUnavailable", "503 unavailable")}

\* The document types and identifier mappings a validator call is given.
ValidatedTypes ==
    {"SalesQuote", "salesquote", "ProformaInvoice", "JobConsumption", "Delivery Note",
     "UNKNOWN"}
IdentifierKeys ==
    {"sales_quote_number", "salesQuoteNo", "tax_invoice_number", "taxInvoiceNo",
     "job_number", "jobNo", "Quote No"}
IdentifierMaps == UNION {[K -> {"", "SQ1007475"}] : K \in SUBSET IdentifierKeys}
NoValidation ==
    [pc |-> "none", document_type |-> "", extracted_identifiers |-> EmptyDict,
     result |-> [is_valid |-> TRUE, error_message |-> <<>>]]
ValidationCall(document_type, extracted_identifiers) ==
    [pc |-> "called", document_type |-> document_type,
     extracted_identifiers |-> extracted_identifiers,
     result |-> [is_valid |-> TRUE, error_message |-> <<>>]]

ConfiguredModels == {"gemini-2.0-flash-001", FallbackModel}

(***************************************************************************)
(* Actions.                                                                *)
(***************************************************************************)
\* init_vertexai without its guard: every call initializes anew.
init_vertexai_anew(ok) ==
    /\ vertex_ai_initialized' = ok
    /\ init_outcome' = (IF ok THEN "initialized" ELSE "failed")
    /\ started' = TRUE
    /\ UNCHANGED <<gemini_model_name, rq, validation>>

\* init_vertexai(); ok tells whether vertexai.init succeeds with the
\* credentials found.  A call that finds the flag set returns at once.
init_vertexai(ok) ==
    /\ vertex_ai_initialized' = (IF vertex_ai_initialized THEN TRUE ELSE ok)
    /\ init_outcome' = (IF vertex_ai_initialized THEN "skipped"
                        ELSE IF ok THEN "initialized" ELSE "failed")
    /\ started' = TRUE
    /\ UNCHANGED <<gemini_model_name, rq, validation>>

\* The HTTP status the endpoint of the operation answers with once the
\* service function has returned rec: 500 for the HTTPException it raises,
\* 200 when it returns the record.  The endpoints test error_message for a
\* non-empty string, and answer 500 as well when the service function raised
\* instead of returning a record.  classify_and_verify has no endpoint.
Endpoint(op, rec) ==
    LET error_message == /\ rec # NoRecord
                         /\ rec.error_message # None
                         /\ \E i \in 1..Len(rec.error_message) :
                               rec.error_message[i] # "" IN
    CASE op # "ClassifyAndVerify" /\ rec = NoRecord -> 500
      [] op = "ExtractIdentifiers" -> IF error_message THEN 500 ELSE 200
      [] op = "Verify" ->
            IF /\ error_message
               /\ ~(rec.discrepancies # <<>> \/ rec.field_confidences # <<>>)
            THEN 500 ELSE 200
      [] op = "Classify" -> IF error_message THEN 500 ELSE 200
      [] OTHER -> 0

\* The endpoint answers once the service function has returned.
Respond(q) ==
    IF q.pc = "DONE" THEN [q EXCEPT !.http_status = Endpoint(q.request.op, q.response)]
    ELSE q

\* The operation runs from its entry to its first remote call, or to the
\* return that precedes the loop.
Begin(r) ==
    LET q == rq[r]
        early == EarlyReturn(vertex_ai_initialized, q.request)
        mode == IF vertex_ai_initialized /\ q.request.op = "ClassifyAndVerify"
                THEN <<IsInitialClassification(q.request.erp_data)>>
                ELSE None IN
    /\ started
    /\ q.pc = "PENDING"
    /\ rq' = [rq EXCEPT ![r] =
                IF early # NoRecord
                THEN Respond([q EXCEPT !.pc = "DONE", !.response = early, !.records = 1,
                                       !.is_initial_classification = mode,
                                       !.ready_at_entry = <<vertex_ai_initialized>>])
                ELSE [q EXCEPT !.pc = "ATTEMPTING", !.idx = 1,
                               !.is_initial_classification = mode,
                               !.ready_at_entry = <<vertex_ai_initialized>>,
                               !.attempts = <<Attempt(model_names(gemini_model_name)[1], 1)>>]]
    /\ UNCHANGED <<vertex_ai_initialized, started, init_outcome, gemini_model_name, validation>>

\* The handler keeping the first error it saw.
last_error_kept(previous, e) == IF previous = NoExc THEN e ELSE previous
\* except Exception as e: last_error = e
last_error_after(previous, e) == e

\* The loop turn writing the error of an earlier candidate into the record of
\* the candidate that succeeded.
EndTurn_stale_error(q, res, text) ==
    LET op == q.request.op
        names == <<gemini_model_name, FallbackModel>>
        raw == IF text # None /\ op # "ExtractIdentifiers" THEN text
               ELSE q.raw_response_text
        logged == [q.attempts EXCEPT ![q.idx] =
                      [@ EXCEPT !.outcome = IF res.raised THEN "failed" ELSE "succeeded",
                                !.error = res.err, !.text = text, !.tier = res.tier]] IN
    IF ~res.raised
    THEN [q EXCEPT !.pc = "DONE",
                   !.response = IF q.last_error = NoExc THEN res.rec
                                ELSE [res.rec EXCEPT !.error_message =
                                                        <<ErrStr(q.last_error)>>],
                   !.records = @ + 1, !.raw_response_text = raw, !.attempts = logged]
    ELSE IF q.idx < Len(names)
    THEN [q EXCEPT !.idx = @ + 1, !.last_error = res.err, !.raw_response_text = raw,
                   !.attempts = Append(logged, Attempt(names[q.idx + 1], q.idx + 1))]
    ELSE [q EXCEPT !.pc = "DONE", !.last_error = res.err, !.raw_response_text = raw,
                   !.response = ErrorRecord(op, <<AllFailedPrefix(op), ErrStr(res.err)>>,
                                            IF op = "ExtractIdentifiers" \/ op = "Classify"
                                            THEN None ELSE raw),
                   !.records = @ + 1, !.attempts = logged]

\* The loop turn taking raw_response_text from the current candidate alone: a
\* call that raises leaves no text.
EndTurn_raw_of_turn(q, res, text) ==
    LET op == q.request.op
        names == <<gemini_model_name, FallbackModel>>
        raw == IF text # None /\ op # "ExtractIdentifiers" THEN text
               ELSE InitialRawText(op)
        logged == [q.attempts EXCEPT ![q.idx] =
                      [@ EXCEPT !.outcome = IF res.raised THEN "failed" ELSE "succeeded",
                                !.error = res.err, !.text = text, !.tier = res.tier]] IN
    IF ~res.raised
    THEN [q EXCEPT !.pc = "DONE", !.response = res.rec, !.records = @ + 1,
                   !.raw_response_text = raw, !.attempts = logged]
    ELSE IF q.idx < Len(names)
    THEN [q EXCEPT !.idx = @ + 1, !.last_error = res.err, !.raw_response_text = raw,
                   !.attempts = Append(logged, Attempt(names[q.idx + 1], q.idx + 1))]
    ELSE [q EXCEPT !.pc = "DONE", !.last_error = res.err, !.raw_response_text = raw,
                   !.response = ErrorRecord(op, <<AllFailedPrefix(op), ErrStr(res.err)>>,
                                            IF op = "ExtractIdentifiers" \/ op = "Classify"
                                            THEN None ELSE raw),
                   !.records = @ + 1, !.attempts = logged]

\* The loop turn returning an error record as soon as an answer is rejected
\* by the response schema, instead of going on to the next candidate.
EndTurn_validation_ends(q, res, text) ==
    LET op == q.request.op
        names == <<gemini_model_name, FallbackModel>>
        raw == IF text # None /\ op # "ExtractIdentifiers" THEN text
               ELSE q.raw_response_text
        logged == [q.attempts EXCEPT ![q.idx] =
                      [@ EXCEPT !.outcome = IF res.raised THEN "failed" ELSE "succeeded",
                                !.error = res.err, !.text = text, !.tier = res.tier]] IN
    IF ~res.raised
    THEN [q EXCEPT !.pc = "DONE", !.response = res.rec, !.records = @ + 1,
                   !.raw_response_text = raw, !.attempts = logged]
    ELSE IF q.idx < Len(names) /\ res.err.exc # "ValidationError"
    THEN [q EXCEPT !.idx = @ + 1, !.last_error = res.err, !.raw_response_text = raw,
                   !.attempts = Append(logged, Attempt(names[q.idx + 1], q.idx + 1))]
    ELSE [q EXCEPT !.pc = "DONE", !.last_error = res.err, !.raw_response_text = raw,
                   !.response = ErrorRecord(op, <<AllFailedPrefix(op), ErrStr(res.err)>>,
                                            IF op = "ExtractIdentifiers" \/ op = "Classify"
                                            THEN None ELSE raw),
                   !.records = @ + 1, !.attempts = logged]

\* The rest of the loop turn once the awaited call is over: res is what the
\* try block ended with and text what the call returned (None if it raised).
EndTurn(q, res, text) ==
    LET op == q.request.op
        names == model_names(gemini_model_name)
        raw == IF text # None /\ op # "ExtractIdentifiers" THEN text
               ELSE q.raw_response_text
        logged == [q.attempts EXCEPT ![q.idx] =
                      [@ EXCEPT !.outcome = IF res.raised THEN "failed" ELSE "succeeded",
                                !.error = res.err, !.text = text, !.tier = res.tier]] IN
    IF ~res.raised
    THEN [q EXCEPT !.pc = "DONE", !.response = res.rec, !.records = @ + 1,
                   !.raw_response_text = raw, !.attempts = logged]
    ELSE IF q.idx < Len(names)
    THEN [q EXCEPT !.idx = @ + 1, !.last_error = last_error_after(@, res.err),
                   !.raw_response_text = raw,
                   !.attempts = Append(logged, Attempt(names[q.idx + 1], q.idx + 1))]
    ELSE [q EXCEPT !.pc = "DONE", !.last_error = last_error_after(@, res.err),
                   !.raw_response_text = raw,
                   !.response = AllFailedRecord(op, last_error_after(q.last_error, res.err),
                                                raw),
                   !.records = @ + 1, !.attempts = logged]

\* last_error kept in one place for all requests: the failing call of one
\* request overwrites the last error of every request in its loop.
CallRaises_shared_error(r, e) ==
    /\ rq[r].pc = "ATTEMPTING"
    /\ rq' = [x \in DOMAIN rq |->
                IF x = r THEN Respond(EndTurn(rq[r], Raised(e, 0), None))
                ELSE IF rq[x].pc = "ATTEMPTING" THEN [rq[x] EXCEPT !.last_error = e]
                ELSE rq[x]]
    /\ UNCHANGED <<vertex_ai_initialized, started, init_outcome, gemini_model_name, validation>>

\* A transport failure taken as the loss of the backend: the handler clears
\* the flag.
CallRaises_clears_flag(r, e) ==
    /\ rq[r].pc = "ATTEMPTING"
    /\ rq' = [rq EXCEPT ![r] = Respond(EndTurn(rq[r], Raised(e, 0), None))]
    /\ vertex_ai_initialized' = FALSE
    /\ UNCHANGED <<started, init_outcome, gemini_model_name, validation>>

\* The awaited generate_content_async raises e.
CallRaises(r, e) ==
    /\ rq[r].pc = "ATTEMPTING"
    /\ rq' = [rq EXCEPT ![r] = Respond(EndTurn(rq[r], Raised(e, 0), None))]
    /\ UNCHANGED <<vertex_ai_initialized, started, init_outcome, gemini_model_name, validation>>

\* A handler whose record depends on the history of the process: a request
\* answered after another one says so in its record.
CallReturns_history(r, text) ==
    LET earlier == {x \in DOMAIN rq : x # r /\ rq[x].pc = "DONE"}
        turn == Respond(EndTurn(rq[r], Turn(rq[r].request, text), <<text>>)) IN
    /\ rq[r].pc = "ATTEMPTING"
    /\ rq' = [rq EXCEPT ![r] =
                IF earlier # {} /\ turn.pc = "DONE"
                THEN [turn EXCEPT !.response.error_message = <<"answered after another request">>]
                ELSE turn]
    /\ UNCHANGED <<vertex_ai_initialized, started, init_outcome, gemini_model_name, validation>>

\* The awaited generate_content_async returns text.
CallReturns(r, text) ==
    /\ rq[r].pc = "ATTEMPTING"
    /\ rq' = [rq EXCEPT ![r] =
                Respond(EndTurn(rq[r], Turn(rq[r].request, text), <<text>>))]
    /\ UNCHANGED <<vertex_ai_initialized, started, init_outcome, gemini_model_name, validation>>

Init ==
    /\ vertex_ai_initialized = FALSE
    /\ started = FALSE
    /\ init_outcome = "none"
    /\ gemini_model_name \in ConfiguredModels
    /\ \E req \in Requests : rq = [r \in {1} |-> NewRequest(req)]
    /\ validation = NoValidation

Next ==
    \/ \E ok \in BOOLEAN : init_vertexai(ok)
    \/ \E r \in DOMAIN rq : Begin(r)
    \/ \E r \in DOMAIN rq : \E e \in TransportErrors : CallRaises(r, e)
    \/ \E r \in DOMAIN rq : \E text \in Texts(rq[r].request.op) : CallReturns(r, text)

Spec == Init /\ [][Next]_vars

(***************************************************************************)
(* Several requests in flight at once: the event loop interleaves the      *)
(* handlers at their awaits, so the remote calls of the requests end in    *)
(* any order.                                                              *)
(***************************************************************************)
ConcurrentInit ==
    /\ vertex_ai_initialized = FALSE
    /\ started = FALSE
    /\ init_outcome = "none"
    /\ gemini_model_name = "gemini-2.0-flash-001"
    /\ rq \in [1..MaxRequests -> {NewRequest(req) : req \in ConcurrentRequests}]
    /\ validation = NoValidation

ConcurrentNext ==
    \/ \E ok \in BOOLEAN : init_vertexai(ok)
    \/ \E r \in DOMAIN rq : Begin(r)
    \/ \E r \in DOMAIN rq : \E e \in ConcurrentErrors : CallRaises(r, e)
    \/ \E r \in DOMAIN rq : \E text \in ConcurrentTexts(rq[r].request.op) :
          CallReturns(r, text)

ConcurrentSpec == ConcurrentInit /\ [][ConcurrentNext]_vars

(***************************************************************************)
(* One request of any operation with any images: none, some that decode,   *)
(* some that do not.                                                       *)
(***************************************************************************)
ImageRequests ==
    UNION {{Request("ExtractIdentifiers", "SalesQuote", {}, i),
            Request("Verify", "SalesQuote", {"salesQuoteHeader"}, i),
            Request("Classify", "", {}, i),
            Request("ClassifyAndVerify", "", {"jobNo"}, i)} : i \in ImageSeqs}

ImagesInit ==
    /\ vertex_ai_initialized = FALSE
    /\ started = FALSE
    /\ init_outcome = "none"
    /\ gemini_model_name \in ConfiguredModels
    /\ \E req \in ImageRequests : rq = [r \in {1} |-> NewRequest(req)]
    /\ validation = NoValidation

ImagesSpec == ImagesInit /\ [][ConcurrentNext]_vars

(***************************************************************************)
(* Answers that name several document types: texts of keywords in every    *)
(* order, and arrays that list documents of several types in every order.  *)
(***************************************************************************)
\* How many keywords a text holds, and how many documents an array lists, at
\* most.
MaxMentioned == 2
\* The sequences of at most n different elements of set.
RECURSIVE DistinctSeqs(_, _)
DistinctSeqs(set, n) ==
    IF n = 0 THEN {<<>>}
    ELSE DistinctSeqs(set, n - 1) \cup
         UNION {{Append(q, e) : e \in set \ {q[j] : j \in 1..Len(q)}} :
                   q \in {x \in DistinctSeqs(set, n - 1) : Len(x) = n - 1}}

\* Texts of the names of the document types as an answer in prose spells
\* them.
KeywordTexts ==
    LET words == {W("Sales Quote"), W("ProformaInvoice"), W("Proforma Invoice"),
                  W("Job Shipment")} IN
    DistinctSeqs(words, MaxMentioned) \ {<<>>}
\* Arrays of documents: entries of each type without identifier, and a job
\* shipment with its number.
ListedArrays ==
    LET entries == {DocEntry("Sales Quote", "Sales Quote Number", ""),
                    DocEntry("Proforma Invoice", "Tax Invoice Number", ""),
                    DocEntry("Job Shipment", "Job Shipment Number", ""),
                    DocEntry("Job Shipment", "Job Shipment Number", "JC149529")} IN
    {ArrT(q) : q \in DistinctSeqs(entries, MaxMentioned)}
PrecedenceTexts(op) ==
    IF op = "Classify" THEN KeywordTexts ELSE KeywordTexts \cup ListedArrays

\* classify, and classify_and_verify in each of its two modes.
PrecedenceRequests ==
    {Request("Classify", "", {}, <<TRUE>>),
     Request("ClassifyAndVerify", "", {"jobNo"}, <<TRUE>>),
     Request("ClassifyAndVerify", "", {"jobNo", "salesQuoteHeader"}, <<TRUE>>)}

PrecedenceInit ==
    /\ vertex_ai_initialized = FALSE
    /\ started = FALSE
    /\ init_outcome = "none"
    /\ gemini_model_name \in ConfiguredModels
    /\ \E req \in PrecedenceRequests : rq = [r \in {1} |-> NewRequest(req)]
    /\ validation = NoValidation

PrecedenceNext ==
    \/ \E ok \in BOOLEAN : init_vertexai(ok)
    \/ \E r \in DOMAIN rq : Begin(r)
    \/ \E r \in DOMAIN rq : \E e \in ConcurrentErrors : CallRaises(r, e)
    \/ \E r \in DOMAIN rq : \E text \in PrecedenceTexts(rq[r].request.op) :
          CallReturns(r, text)

PrecedenceSpec == PrecedenceInit /\ [][PrecedenceNext]_vars

(***************************************************************************)
(* _validate_extracted_identifiers on its own: the calls a caller can make *)
(* of it, whatever mapping of identifiers it was able to assemble.         *)
(***************************************************************************)
ValidatorInit ==
    /\ vertex_ai_initialized = FALSE
    /\ started = FALSE
    /\ init_outcome = "none"
    /\ gemini_model_name \in ConfiguredModels
    /\ rq = <<>>
    /\ \E d \in ValidatedTypes, ids \in IdentifierMaps : validation = ValidationCall(d, ids)

\* The call runs to its return.
Validate ==
    /\ validation.pc = "called"
    /\ validation' =
          [validation EXCEPT
              !.pc = "returned",
              !.result = validate_extracted_identifiers(validation.document_type,
                                                        validation.extracted_identifiers)]
    /\ UNCHANGED <<vertex_ai_initialized, started, init_outcome, gemini_model_name, rq>>

ValidatorNext == Validate

ValidatorSpec == ValidatorInit /\ [][ValidatorNext]_vars

(***************************************************************************)
(* Properties.                                                             *)
(***************************************************************************)
Done(q) == q.pc = "DONE"
\* The attempt whose call returned text, and that text.
ReturnedText(a) == a.text # None
TextOf(a) == a.text[1]
Failed(a) == a.outcome = "failed"
Succeeded(a) == a.outcome = "succeeded"
InFlight(a) == a.outcome = "in flight"
\* The call itself raised: the attempt failed without any text.
Threw(a) == Failed(a) /\ a.text = None
Tried(q) == Len(q.attempts)

\* C1: the candidates are invoked one at a time in list order, the configured
\* model first and the hard-coded fallback second; candidate i+1 is invoked only
\* after the call to candidate i has ended in a failure, and no candidate is
\* invoked after one has succeeded.
C1_SequentialInOrder ==
    \A r \in DOMAIN rq :
        LET a == rq[r].attempts IN
        /\ Len(a) <= 2
        /\ Len(a) >= 1 => a[1].model = gemini_model_name /\ a[1].idx = 1
        /\ Len(a) >= 2 => a[2].model = FallbackModel /\ a[2].idx = 2
        /\ \A i \in 1..Len(a) :
              /\ i < Len(a) => Failed(a[i])
              /\ InFlight(a[i]) => i = Len(a) /\ rq[r].pc = "ATTEMPTING"
              /\ Succeeded(a[i]) => i = Len(a) /\ Done(rq[r])
        /\ rq[r].pc = "ATTEMPTING" => Len(a) >= 1 /\ InFlight(a[Len(a)])

\* The second candidate is invoked after the first failed, and one request
\* stopped at its first candidate's success.
C1_Witness ==
    \E r \in DOMAIN rq :
        /\ Len(rq[r].attempts) = 2
        /\ Failed(rq[r].attempts[1])
        /\ Succeeded(rq[r].attempts[2])
        /\ gemini_model_name # FallbackModel

\* Usable output: text that the operation decodes, whole or from the substring
\* its second tier extracts, to a value its response schema accepts.
Usable(req, text) == ~Turn(req, text).raised /\ Turn(req, text).tier \in {1, 2}

FirstThrewSecondUsable(q) ==
    /\ Done(q)
    /\ Len(q.attempts) = 2
    /\ Threw(q.attempts[1])
    /\ ReturnedText(q.attempts[2])
    /\ Usable(q.request, TextOf(q.attempts[2]))

\* C2: when the call to the first candidate throws and the second candidate
\* returns usable output, the record is the one built from the second
\* candidate's output, its error message is null, and it is the record the
\* request would have got had the first candidate returned that output.
C2_SecondCandidateRecord ==
    \A r \in DOMAIN rq :
        FirstThrewSecondUsable(rq[r]) =>
            /\ rq[r].response.error_message = None
            /\ rq[r].response = Turn(rq[r].request, TextOf(rq[r].attempts[2])).rec
            /\ Succeeded(rq[r].attempts[2])
            /\ rq[r].records = 1

C2_Witness ==
    \E r \in DOMAIN rq :
        /\ FirstThrewSecondUsable(rq[r])
        /\ rq[r].request.op = "ClassifyAndVerify"
        /\ rq[r].response.document_type = "SalesQuote"

\* C3: within one request no model identifier is invoked more than once,
\* whatever the configured primary model name is.
C3_NoModelInvokedTwice ==
    \A r \in DOMAIN rq :
        \A i, j \in 1..Len(rq[r].attempts) :
            i # j => rq[r].attempts[i].model # rq[r].attempts[j].model

AllFailed(q) ==
    /\ Done(q)
    /\ Len(q.attempts) = 2
    /\ \A i \in 1..2 : Failed(q.attempts[i])

\* The structured fields of a record at their empty defaults.
EmptyDefaults(rec) ==
    CASE rec.kind = "IdentifierExtractionResponse" -> rec.extracted_identifiers = EmptyDict
      [] rec.kind = "ClassificationResponse" ->
            rec.document_type = "UNKNOWN" /\ rec.confidence = 0
      [] rec.kind = "VerificationResponse" ->
            /\ rec.discrepancies = <<>>
            /\ rec.field_confidences = <<>>
            /\ rec.overall_verification_confidence = 0
      [] rec.kind = "ClassifyAndVerifyResponse" ->
            /\ rec.document_type = "UNKNOWN"
            /\ rec.classification_confidence = 0
            /\ rec.discrepancies = <<>>
            /\ rec.field_confidences = <<>>
            /\ rec.overall_verification_confidence = 0
      [] OTHER -> FALSE

\* C4: when every candidate fails, the record's error message carries the
\* error of the last candidate attempted and its structured fields are at
\* their empty defaults.
C4_LastErrorAndDefaults ==
    \A r \in DOMAIN rq :
        AllFailed(rq[r]) =>
            /\ rq[r].response.error_message =
                  <<AllFailedPrefix(rq[r].request.op), ErrStr(rq[r].attempts[2].error)>>
            /\ EmptyDefaults(rq[r].response)

\* Both candidates failed, with different errors.
C4_Witness ==
    \E r \in DOMAIN rq :
        /\ AllFailed(rq[r])
        /\ ErrStr(rq[r].attempts[1].error) # ErrStr(rq[r].attempts[2].error)
        /\ Threw(rq[r].attempts[1])
        /\ ~Threw(rq[r].attempts[2])

AllThrew(q) ==
    /\ Done(q)
    /\ Len(q.attempts) = 2
    /\ \A i \in 1..2 : Threw(q.attempts[i])

\* The request returned before its loop: no candidate was invoked.
EndedBeforeLoop(q) == Done(q) /\ Len(q.attempts) = 0

\* classify_and_verify, asked for an initial classification, wrote its record
\* from text it could not decode and read a known document type in it: the
\* validation of the (empty) identifiers rejects.
ValidationRejected(q) ==
    /\ Done(q)
    /\ q.request.op = "ClassifyAndVerify"
    /\ IsInitialClassification(q.request.erp_data)
    /\ Len(q.attempts) >= 1
    /\ Succeeded(q.attempts[Len(q.attempts)])
    /\ q.attempts[Len(q.attempts)].tier = 4
    /\ FallbackDocumentType(TextOf(q.attempts[Len(q.attempts)])) # "UNKNOWN"

\* C5 as stated: a record's error message is non-null if and only if every
\* candidate failed at transport or identifier validation rejected; no other
\* condition produces an error message.
C5_ErrorIffTransportOrValidation ==
    \A r \in DOMAIN rq :
        Done(rq[r]) =>
            (rq[r].response.error_message # None
                <=> AllThrew(rq[r]) \/ ValidationRejected(rq[r]))

\* C5, amended: a record's error message is non-null if and only if the
\* request returned before invoking any candidate (backend not initialized,
\* verify asked for a combined check, classify_and_verify given no decodable
\* image), or every candidate failed (its call raised, or the processing of the
\* text it returned raised), or identifier validation rejected.
C5_ErrorIffEarlyOrAllFailedOrValidation ==
    \A r \in DOMAIN rq :
        LET q == rq[r] IN
        Done(q) =>
            /\ q.response.error_message # None
                  <=> EndedBeforeLoop(q) \/ AllFailed(q) \/ ValidationRejected(q)
            /\ EndedBeforeLoop(q) =>
                  \/ q.response.error_message = <<"Vertex AI client not initialized.">>
                  \/ /\ q.request.op = "Verify"
                     /\ Lower(q.request.document_type) \in {"combined", "all"}
                  \/ /\ q.request.op = "ClassifyAndVerify"
                     /\ q.response.error_message = <<"No valid images provided">>
                     /\ \A i \in 1..Len(q.request.document_images) :
                           ~q.request.document_images[i]

\* A candidate returned text, validation rejected nothing, and the record
\* carries an error: the processing of both candidates' text raised.
C5_Witness ==
    \E r \in DOMAIN rq :
        /\ AllFailed(rq[r])
        /\ ReturnedText(rq[r].attempts[1])
        /\ ReturnedText(rq[r].attempts[2])
        /\ ~ValidationRejected(rq[r])
        /\ rq[r].response.error_message # None

\* The remote call that request r awaits completes, either way.
CallCompletes(r) ==
    \/ \E e \in TransportErrors : CallRaises(r, e)
    \/ \E text \in Texts(rq[r].request.op) : CallReturns(r, text)

\* A step that ends the call request r awaits: under Next it is a step of
\* CallCompletes(r), which is enabled exactly while r awaits a call.
AwaitsCall(r) == rq[r].pc = "ATTEMPTING"
CallEnds(r) == AwaitsCall(r) /\ rq'[r] # rq[r]

\* The service starts, every request received is handled, and every remote
\* call returns or fails: weak fairness of init_vertexai, of Begin and of
\* CallCompletes, the last written out as []<>~ENABLED \/ []<><<step>>.
FairSpec ==
    /\ Spec
    /\ WF_vars(\E ok \in BOOLEAN : init_vertexai(ok))
    /\ \A r \in {1} :
          /\ WF_vars(Begin(r))
          /\ ([]<>(~AwaitsCall(r)) \/ []<><<CallEnds(r)>>_vars)

\* C6: every request eventually reaches a terminal state with exactly one
\* record, after at most two remote calls, and nothing is invoked or written
\* for it afterwards.
C6_TerminatesWithOneRecord ==
    /\ <>(\A r \in DOMAIN rq : Done(rq[r]) /\ rq[r].records = 1)
    /\ [](\A r \in DOMAIN rq :
             /\ Len(rq[r].attempts) <= 2
             /\ rq[r].records = (IF Done(rq[r]) THEN 1 ELSE 0))
    /\ [][\A r \in DOMAIN rq : Done(rq[r]) => rq'[r] = rq[r]]_vars

\* A request is terminal after two remote calls.
C6_Witness ==
    \E r \in DOMAIN rq :
        /\ Done(rq[r])
        /\ rq[r].records = 1
        /\ Len(rq[r].attempts) = 2
        /\ ~InFlight(rq[r].attempts[2])

KindOf(op) ==
    CASE op = "ExtractIdentifiers" -> "IdentifierExtractionResponse"
      [] op = "Verify" -> "VerificationResponse"
      [] op = "Classify" -> "ClassificationResponse"
      [] op = "ClassifyAndVerify" -> "ClassifyAndVerifyResponse"

IsSeq(x) == DOMAIN x = 1..Len(x)
OptionalText(x) == x = None \/ (IsSeq(x) /\ Len(x) >= 1)

\* The record has the fields of the operation's response class.
WellTyped(op, rec) ==
    /\ rec.kind = KindOf(op)
    /\ OptionalText(rec.error_message)
    /\ CASE op = "ExtractIdentifiers" ->
              DOMAIN rec = {"kind", "extracted_identifiers", "error_message"}
         [] op = "Classify" ->
              /\ DOMAIN rec = {"kind", "document_type", "confidence", "reasoning",
                               "error_message"}
              /\ rec.confidence \in Int
              /\ OptionalText(rec.reasoning)
         [] op = "Verify" ->
              /\ IsSeq(rec.discrepancies)
              /\ IsSeq(rec.field_confidences)
              /\ rec.overall_verification_confidence \in Int
         [] op = "ClassifyAndVerify" ->
              /\ IsSeq(rec.discrepancies)
              /\ IsSeq(rec.field_confidences)
              /\ rec.classification_confidence \in Int
              /\ rec.overall_verification_confidence \in Int

\* C7: no operation raises to its caller: a finished request has a well-typed
\* record of its operation's response class, and a request whose candidates
\* all failed has its failure as a populated error message.
C7_AlwaysARecord ==
    \A r \in DOMAIN rq :
        LET q == rq[r] IN
        /\ Done(q) => WellTyped(q.request.op, q.response)
        /\ ~Done(q) => q.response = NoRecord
        /\ Done(q) /\ Len(q.attempts) >= 1 /\ Failed(q.attempts[Len(q.attempts)]) =>
              /\ q.response.error_message # None
              /\ Len(q.response.error_message) = 2

\* Both remote calls raised and the caller still got a record.
C7_Witness ==
    \E r \in DOMAIN rq :
        /\ AllThrew(rq[r])
        /\ WellTyped(rq[r].request.op, rq[r].response)
        /\ rq[r].response.error_message # None

\* Both decoding tiers of the operation fail on the text: the whole text does
\* not decode, and neither does the substring the operation extracts (from the
\* first '{' to the last '}', or in classify_and_verify the tagged fence).
ParseFails(op, text) ==
    IF op = "ClassifyAndVerify"
    THEN LET json_match == FenceSearch(text) IN
         IF json_match.found THEN ~json_loads(json_match.group).ok
         ELSE ~json_loads(text).ok
    ELSE /\ ~json_loads(text).ok
         /\ ~(BraceSearch(text).found /\ json_loads(BraceSearch(text).group).ok)

\* The attempts of a request whose call returned text and whose turn is over.
Answered(q) == {i \in 1..Len(q.attempts) :
                   ReturnedText(q.attempts[i]) /\ ~InFlight(q.attempts[i])}

MalformedConfidence(text) ==
    /\ BraceSearch(text).found
    /\ ConfidenceSearch(text).found
    /\ ConfidenceSearch(text).group \in DottedStrings

\* The texts on which a parse failure is recovered by the same candidate.
Recovers(req, text) ==
    CASE req.op \in {"ExtractIdentifiers", "Verify"} -> BraceSearch(text).found
      [] req.op = "Classify" -> ~MalformedConfidence(text)
      [] req.op = "ClassifyAndVerify" -> ~IsInitialClassification(req.erp_data)

Masked(res) ==
    IF ~res.raised /\ "raw_llm_response" \in DOMAIN res.rec
    THEN [res EXCEPT !.rec = [@ EXCEPT !.raw_llm_response = None], !.tier = 0]
    ELSE [res EXCEPT !.tier = 0]

\* The bodies of an operation that are one valid JSON object.
ObjectBodies(op) == {b \in Bodies(op) : json_loads(b).ok /\ IsObj(json_loads(b).val)}

\* body is a valid JSON object and text is body inside a markdown fence, with
\* or without the language tag, with or without prose around the fence.
FencedObject(op, text, body) ==
    /\ body \in ObjectBodies(op)
    /\ \E tag \in {"json", ""}, before \in {<<>>, Intro, BraceProse},
          after \in {<<>>, Outro, BraceProse} :
          text = before \o Fenced(tag, body) \o after

\* C9: from text that holds a valid JSON object inside a markdown fence, with
\* or without a language tag and whatever prose surrounds the fence, every
\* operation recovers exactly the enclosed object, at its second tier.
C9_FencedObjectRecovered ==
    \A r \in DOMAIN rq :
        LET q == rq[r] IN
        \A i \in Answered(q) :
            \A body \in ObjectBodies(q.request.op) :
                FencedObject(q.request.op, TextOf(q.attempts[i]), body) =>
                    /\ q.attempts[i].tier = 2
                    /\ Masked(Turn(q.request, TextOf(q.attempts[i])))
                          = Masked(Turn(q.request, body))

\* C10: in every operation, when the whole text does not decode and the
\* substring from the first '{' to the last '}' decodes to a JSON object, the
\* record is built from that object.
C10_BraceSpanRecovered ==
    \A r \in DOMAIN rq :
        LET q == rq[r] IN
        \A i \in Answered(q) :
            LET text == TextOf(q.attempts[i])
                json_match == BraceSearch(text) IN
            /\ ~json_loads(text).ok
            /\ json_match.found
            /\ json_loads(json_match.group).ok
            /\ IsObj(json_loads(json_match.group).val)
            => Masked(Turn(q.request, text)) = Masked(Turn(q.request, json_match.group))

\* The document types whose canonical name or synonym occurs in the text,
\* whatever the letter case.
KeywordTypes(text) ==
    {ty \in {"SalesQuote", "ProformaInvoice", "JobConsumption"} :
        \E kw \in (CASE ty = "SalesQuote" -> {"salesquote", "sales quote"}
                     [] ty = "ProformaInvoice" -> {"proformainvoice", "proforma invoice"}
                     [] ty = "JobConsumption" ->
                           {"jobconsumption", "job consumption", "job shipment"}) :
            TextContains(text, kw)}

\* C11: in classify, from every text of which no JSON decodes, with or without
\* braces in it, the record has the document type of a keyword the text
\* contains, with confidence 0.7, and UNKNOWN with confidence 0.0 when the text
\* contains no keyword.
C11_ClassifyKeywordHeuristic ==
    \A r \in DOMAIN rq :
        LET q == rq[r] IN
        \A i \in Answered(q) :
            q.request.op = "Classify" /\ ParseFails("Classify", TextOf(q.attempts[i])) =>
                /\ Succeeded(q.attempts[i])
                /\ IF KeywordTypes(TextOf(q.attempts[i])) # {}
                   THEN /\ q.response.document_type \in KeywordTypes(TextOf(q.attempts[i]))
                        /\ q.response.confidence = 70
                   ELSE /\ q.response.document_type = "UNKNOWN"
                        /\ q.response.confidence = 0

\* C12: in classify_and_verify, a record whose document type was decided by
\* the keyword heuristic (the text did not decode) has classification
\* confidence 0.7 when a keyword matched, and type UNKNOWN with confidence 0.0
\* when none did.
C12_KeywordConfidence ==
    \A r \in DOMAIN rq :
        LET q == rq[r] IN
        \A i \in Answered(q) :
            /\ q.request.op = "ClassifyAndVerify"
            /\ ParseFails("ClassifyAndVerify", TextOf(q.attempts[i]))
            /\ Succeeded(q.attempts[i])
            => q.response.classification_confidence =
                  (IF q.response.document_type = "UNKNOWN" THEN 0 ELSE 70)

\* The substring an operation extracts when the whole text does not decode:
\* the content of a tagged fence in classify_and_verify, the span from the
\* first '{' to the last '}' elsewhere.
Extraction(op, text) ==
    IF op = "ClassifyAndVerify" THEN FenceSearch(text) ELSE BraceSearch(text)

\* What the operation builds from a decoded value v.
BuildFrom(req, v, raw, tier) ==
    CASE req.op = "ExtractIdentifiers" -> ExtractBuild(v, tier)
      [] req.op = "Verify" -> VerifyBuild(v, raw, tier)
      [] req.op = "Classify" -> ClassifyBuild(v, tier)
      [] req.op = "ClassifyAndVerify" ->
            IF IsInitialClassification(req.erp_data) THEN InitialBuild(v, raw, tier)
            ELSE VerificationBuild(v, raw, tier)

\* Attempt i of request q ended the way the result res says.
OutcomeIs(q, i, res) ==
    /\ Failed(q.attempts[i]) = res.raised
    /\ q.attempts[i].error = res.err
    /\ Succeeded(q.attempts[i]) => q.response = res.rec

ModeChosen(q) == q.request.op = "ClassifyAndVerify" /\ q.is_initial_classification # None
\* The record was built by the initial-classification branch from decoded output.
BuiltAsInitial(q) == q.response.classification_reasoning = <<"Documents identified: ">>
DecodedRecord(q) ==
    /\ Done(q)
    /\ q.request.op = "ClassifyAndVerify"
    /\ Len(q.attempts) >= 1
    /\ Succeeded(q.attempts[Len(q.attempts)])
    /\ q.attempts[Len(q.attempts)].tier \in {1, 2}

\* C14 as stated: classify_and_verify runs identifier-extraction-only mode
\* exactly when the reference data has one key and that key is a job
\* identifier, "jobId" for example, and full verification mode otherwise.
C14_ModeFromSingleJobKey ==
    \A r \in DOMAIN rq :
        ModeChosen(rq[r]) =>
            rq[r].is_initial_classification =
                <<Cardinality(rq[r].request.erp_data) = 1
                  /\ rq[r].request.erp_data \subseteq {"jobNo", "jobId"}>>

\* C14, amended: classify_and_verify runs identifier-extraction-only mode
\* exactly when the reference data has one key and that key is "jobNo"; any
\* other reference data, a single key of another name included, runs full
\* verification mode.
C14_ModeFromJobNoAlone ==
    \A r \in DOMAIN rq :
        LET q == rq[r] IN
        /\ ModeChosen(q) => q.is_initial_classification = <<q.request.erp_data = {"jobNo"}>>
        /\ DecodedRecord(q) => (BuiltAsInitial(q) <=> q.request.erp_data = {"jobNo"})

\* A request with the single key "jobId" ran the verification branch, and the
\* record holds the discrepancies the model reported.
C14_Witness ==
    \E r \in DOMAIN rq :
        LET q == rq[r] IN
        /\ DecodedRecord(q)
        /\ q.request.erp_data = {"jobId"}
        /\ q.is_initial_classification = <<FALSE>>
        /\ ~BuiltAsInitial(q)
        /\ Len(q.response.discrepancies) = 1

\* A validator call that has returned.
Validated == validation.pc = "returned"
KnownTypes == {"salesquote", "proformainvoice", "jobconsumption"}
\* The required set of each known type, as the validator's table states it.
RequiredSet(doc_type_lower) ==
    CASE doc_type_lower = "salesquote" -> {"sales_quote_number", "salesQuoteNo"}
      [] doc_type_lower = "proformainvoice" -> {"tax_invoice_number", "taxInvoiceNo"}
      [] doc_type_lower = "jobconsumption" -> {"job_number", "jobNo"}
      [] OTHER -> {}

\* C15: the validator returns valid exactly when the document type, compared
\* without regard to case, is none of the three known types, or some field of
\* the type's required set is in the mapping with a non-empty value; a key
\* with an empty value and a key outside the required set change nothing.
C15_ValidIffUnknownOrIdentifier ==
    Validated =>
        LET l == Lower(validation.document_type)
            ids == validation.extracted_identifiers
            found == \E k \in RequiredSet(l) \cap DOMAIN ids : ids[k] # ""
            required_only == [k \in RequiredSet(l) \cap DOMAIN ids |-> ids[k]] IN
        /\ validation.result.is_valid <=> (l \notin KnownTypes \/ found)
        /\ validation.result = validate_extracted_identifiers(validation.document_type,
                                                              required_only)

\* A lower-case sales quote whose required key is present but empty and whose
\* quote number sits under a key outside the required set was rejected.
C15_Witness ==
    /\ Validated
    /\ validation.document_type = "salesquote"
    /\ DOMAIN validation.extracted_identifiers = {"salesQuoteNo", "Quote No"}
    /\ validation.extracted_identifiers["salesQuoteNo"] = ""
    /\ validation.extracted_identifiers["Quote No"] = "SQ1007475"
    /\ ~validation.result.is_valid

\* The text written for a missing identifier of each known type.
TypeSpecificText(doc_type_lower) ==
    CASE doc_type_lower = "salesquote" ->
            "Cannot find Sales Quote Number from Sales Quote document"
      [] doc_type_lower = "proformainvoice" ->
            "Cannot find Tax Invoice Number from Proforma Invoice document - please check Proforma Invoice"
      [] doc_type_lower = "jobconsumption" ->
            "Cannot find Job Number from Job Consumption document"
      [] OTHER -> ""
\* The messages that contain the words "Sales Quote".
MentionsSalesQuote == {"Cannot find Sales Quote Number from Sales Quote document"}

\* C18: when the validator rejects a SalesQuote, ProformaInvoice or
\* JobConsumption, its message is not empty and every part of it is the text
\* written for that type; for a SalesQuote it contains "Sales Quote".
C18_TypeSpecificMessage ==
    (Validated /\ ~validation.result.is_valid) =>
        LET l == Lower(validation.document_type)
            message == validation.result.error_message IN
        /\ l \in KnownTypes
        /\ message # <<>>
        /\ \A i \in 1..Len(message) : message[i] = TypeSpecificText(l)
        /\ l = "salesquote" => \E i \in 1..Len(message) : message[i] \in MentionsSalesQuote

\* A SalesQuote without any identifier was rejected with the sales quote text,
\* once for each of the two required fields.
C18_Witness ==
    /\ Validated
    /\ validation.document_type = "SalesQuote"
    /\ validation.extracted_identifiers = EmptyDict
    /\ ~validation.result.is_valid
    /\ Len(validation.result.error_message) = 2
    /\ validation.result.error_message[1] \in MentionsSalesQuote

\* The request ended with a record built from a candidate's answer.
BuiltFromAnswer(q) ==
    /\ Done(q)
    /\ Len(q.attempts) >= 1
    /\ Succeeded(q.attempts[Len(q.attempts)])
\* An identifier-extraction request that ended with a known document type and,
\* in its record, no non-empty required identifier of that type.
EndedWithoutIdentifier(q) ==
    /\ BuiltFromAnswer(q)
    /\ \/ /\ q.request.op = "ExtractIdentifiers"
          /\ ~validate_extracted_identifiers(q.request.document_type,
                                             q.response.extracted_identifiers).is_valid
       \/ /\ q.request.op = "ClassifyAndVerify"
          /\ q.is_initial_classification = <<TRUE>>
          /\ Lower(q.response.document_type) \in KnownTypes
          /\ q.response.field_confidences = <<>>
\* The document type the validator is asked about.
TypeOfRecord(q) ==
    IF q.request.op = "ExtractIdentifiers" THEN q.request.document_type
    ELSE q.response.document_type

\* C16 as stated: an identifier-extraction request (extract_identifiers, or
\* classify_and_verify in its initial-classification mode) that ends with a
\* known document type and no non-empty required identifier carries the
\* validation error message of that type, whichever way its record was
\* recovered, decoded JSON included.
C16_MissingIdentifierReported ==
    \A r \in DOMAIN rq :
        EndedWithoutIdentifier(rq[r]) =>
            rq[r].response.error_message =
                validate_extracted_identifiers(TypeOfRecord(rq[r]), EmptyDict).error_message

\* The answer holds an identifier of a known document type: an entry of the
\* decoded documents array with a truthy identifier_value, or, in text that
\* does not decode, a number the fallback patterns find.
IdentifierInAnswer(text) ==
    LET json_match == FenceSearch(text)
        decoded == IF json_match.found THEN json_loads(json_match.group)
                   ELSE json_loads(text)
        documents_array == IF IsArr(decoded.val) THEN decoded.val.a ELSE <<decoded.val>> IN
    IF decoded.ok
    THEN \E i \in 1..Len(documents_array) :
            LET doc == documents_array[i] IN
            /\ IsObj(doc)
            /\ IsStr(DocGet(doc, "document_type", "UNKNOWN"))
            /\ MapDocumentType(DocGet(doc, "document_type", "UNKNOWN").s) # "UNKNOWN"
            /\ IsStr(DocGet(doc, "identifier_label", ""))
            /\ IsStr(DocGet(doc, "identifier_value", ""))
            /\ Truthy(DocGet(doc, "identifier_value", ""))
    ELSE FallbackDocumentType(text) # "UNKNOWN" /\ FallbackFindsIdentifier(text)

\* C17 as stated: in the initial-classification mode of classify_and_verify,
\* an answer from which an identifier of the classified document type was
\* extracted passes validation, and the record built from it carries no
\* error: the candidate succeeds and the error message is null.
C17_ExtractedIdentifierPasses ==
    \A r \in DOMAIN rq :
        LET q == rq[r] IN
        (/\ q.request.op = "ClassifyAndVerify"
         /\ q.is_initial_classification = <<TRUE>>) =>
            \A i \in 1..Len(q.attempts) :
                (/\ ~InFlight(q.attempts[i])
                 /\ ReturnedText(q.attempts[i])
                 /\ IdentifierInAnswer(TextOf(q.attempts[i]))) =>
                    /\ Succeeded(q.attempts[i])
                    /\ Done(q) => q.response.error_message = None

\* The record of the request carries a validation error: it was built from a
\* candidate's answer, and yet it has an error message.
CarriesValidationError(q) == BuiltFromAnswer(q) /\ q.response.error_message # None

\* C19: a record returned with a validation error keeps what was recovered:
\* the document type read from the answer, the field confidences collected
\* before the validation (none, where the validation is reached) and the raw
\* text of the answer.
C19_ValidationKeepsPartialData ==
    \A r \in DOMAIN rq :
        LET q == rq[r]
            text == TextOf(q.attempts[Len(q.attempts)]) IN
        CarriesValidationError(q) =>
            /\ q.request.op = "ClassifyAndVerify"
            /\ q.response.document_type = FallbackDocumentType(text)
            /\ Lower(q.response.document_type) \in KnownTypes
            /\ q.response.field_confidences = <<>>
            /\ q.response.raw_llm_response = <<text>>
            /\ q.response.error_message =
                  <<TypeSpecificText(Lower(q.response.document_type)),
                    TypeSpecificText(Lower(q.response.document_type))>>

\* The second candidate answered with text that names a sales quote and no
\* number: the record has the validation error, the type and the text.
C19_Witness ==
    \E r \in DOMAIN rq :
        LET q == rq[r] IN
        /\ CarriesValidationError(q)
        /\ Len(q.attempts) = 2
        /\ q.response.document_type = "SalesQuote"
        /\ q.response.raw_llm_response = <<TextOf(q.attempts[2])>>
        /\ q.response.error_message[1] \in MentionsSalesQuote

\* A confidence, in hundredths, within [0.0, 1.0].
InUnitRange(c) == c >= 0 /\ c <= 100
\* An optional confidence is None or the sequence of its one value.
FieldConfidencesInRange(list) ==
    \A i \in 1..Len(list) :
        /\ InUnitRange(list[i].extraction_confidence)
        /\ \A j \in 1..Len(list[i].match_assessment_confidence) :
              InUnitRange(list[i].match_assessment_confidence[j])
ConfidencesInRange(rec) ==
    CASE rec.kind = "ClassificationResponse" -> InUnitRange(rec.confidence)
      [] rec.kind = "VerificationResponse" ->
            /\ InUnitRange(rec.overall_verification_confidence)
            /\ FieldConfidencesInRange(rec.field_confidences)
      [] rec.kind = "ClassifyAndVerifyResponse" ->
            /\ InUnitRange(rec.classification_confidence)
            /\ InUnitRange(rec.overall_verification_confidence)
            /\ FieldConfidencesInRange(rec.field_confidences)
      [] OTHER -> TRUE

\* C20 as stated: every confidence of every returned record lies in
\* [0.0, 1.0], whatever the model wrote: the confidence of classify and the
\* classification, per-field and overall confidences of verify and
\* classify_and_verify.
C20_ConfidencesInUnitRange ==
    \A r \in DOMAIN rq : Done(rq[r]) => ConfidencesInRange(rq[r].response)

\* The canonical document types.
CanonicalTypes == {"SalesQuote", "ProformaInvoice", "JobConsumption", "UNKNOWN"}

\* C21 as stated: the document type of every record that classify or
\* classify_and_verify returns, in either mode and on every path, is one of
\* SalesQuote, ProformaInvoice, JobConsumption and UNKNOWN.
C21_DocumentTypeCanonical ==
    \A r \in DOMAIN rq :
        (Done(rq[r]) /\ rq[r].request.op \in {"Classify", "ClassifyAndVerify"}) =>
            rq[r].response.document_type \in CanonicalTypes

\* The reasoning text of a classification record.
ReasoningOf(rec) ==
    IF rec.kind = "ClassificationResponse" THEN rec.reasoning
    ELSE rec.classification_reasoning

\* C22 as stated: the reasoning of every error-free record that classify or
\* classify_and_verify returns is a non-empty text; a reasoning that the
\* answer leaves out or gives as the empty string is replaced by the
\* placeholder.
C22_ReasoningNonEmpty ==
    \A r \in DOMAIN rq :
        (/\ Done(rq[r])
         /\ rq[r].request.op \in {"Classify", "ClassifyAndVerify"}
         /\ rq[r].response.error_message = None) =>
            /\ ReasoningOf(rq[r].response) # None
            /\ ReasoningOf(rq[r].response) # <<"">>

\* An entry with the sub-fields it lacks filled in.
Completed(entry) ==
    IF IsObj(entry)
    THEN JObj(entry.m @@ ("field_name" :> JStr("")) @@ ("extraction_confidence" :> JNum("0.0")))
    ELSE entry
CompletedList(m, key) ==
    IF Has(m, key) /\ IsArr(m[key])
    THEN (key :> JArr([i \in 1..Len(m[key].a) |-> Completed(m[key].a[i])])) @@ m
    ELSE m
\* The decoded answer v with every entry of its two lists completed.
CompletedAnswer(v) ==
    JObj(CompletedList(CompletedList(CompletedList(v.m, "discrepancies"),
                                     "field_confidences"), "fieldConfidences"))
\* The decoded answer lists at least one entry.
ListsEntries(v) ==
    /\ IsObj(v)
    /\ \E key \in {"discrepancies", "field_confidences", "fieldConfidences"} :
          Has(v.m, key) /\ IsArr(v.m[key]) /\ Len(v.m[key].a) > 0
\* The value the operation decoded from the text of an answered attempt.
DecodedValue(op, text) ==
    LET direct == json_loads(text)
        inner == json_loads(Extraction(op, text).group) IN
    IF direct.ok THEN direct.val ELSE inner.val

\* C23 as stated: a decoded answer of verify, or of classify_and_verify in
\* verification mode, that lists discrepancy or field-confidence entries
\* yields a record whatever sub-fields the entries lack: if the answer with
\* the missing field names and extraction confidences filled in is accepted,
\* so is the answer itself, and the candidate is not counted as failed.
C23_EntriesDefaulted ==
    \A r \in DOMAIN rq :
        LET q == rq[r] IN
        (\/ q.request.op = "Verify"
         \/ q.request.op = "ClassifyAndVerify" /\ q.is_initial_classification = <<FALSE>>) =>
            \A i \in Answered(q) :
                LET a == q.attempts[i]
                    v == DecodedValue(q.request.op, TextOf(a)) IN
                (/\ a.tier \in {1, 2}
                 /\ ListsEntries(v)
                 /\ ~BuildFrom(q.request, CompletedAnswer(v), TextOf(a), a.tier).raised) =>
                    Succeeded(a)

Severities == {"high", "medium", "low"}

\* C24 as stated: in every record that verify or classify_and_verify returns,
\* the severity of each discrepancy is one of high, medium and low, whatever
\* severity the answer gave.
C24_SeverityInEnum ==
    \A r \in DOMAIN rq :
        (Done(rq[r]) /\ rq[r].request.op \in {"Verify", "ClassifyAndVerify"}) =>
            \A i \in 1..Len(rq[r].response.discrepancies) :
                rq[r].response.discrepancies[i].severity \in Severities

\* The latest attempt of the request whose call returned text.
LastAnswered(q) == CHOOSE i \in Answered(q) : \A j \in Answered(q) : j <= i

\* C25: a record of verify or classify_and_verify, returned after at least
\* one candidate's call returned text, carries the text of the latest such
\* candidate: on success, on a validation failure and when every candidate
\* failed, a later candidate that failed without returning text included.
C25_RawTextRetained ==
    \A r \in DOMAIN rq :
        LET q == rq[r] IN
        (/\ Done(q)
         /\ q.request.op \in {"Verify", "ClassifyAndVerify"}
         /\ Answered(q) # {}) =>
            q.response.raw_llm_response = <<TextOf(q.attempts[LastAnswered(q)])>>

\* The first candidate returned text that was rejected, the call of the
\* second raised, and the error record carries the text of the first.
C25_Witness ==
    \E r \in DOMAIN rq :
        LET q == rq[r] IN
        /\ AllFailed(q)
        /\ q.request.op \in {"Verify", "ClassifyAndVerify"}
        /\ ReturnedText(q.attempts[1])
        /\ TextOf(q.attempts[1]) # <<>>
        /\ Threw(q.attempts[2])
        /\ q.response.raw_llm_response = <<TextOf(q.attempts[1])>>

\* C26: the flag never goes from true back to false, and a call of
\* init_vertexai that finds it true returns without initializing: the only
\* step init_vertexai takes from a state with the flag set is the skip.
C26_FlagMonotonic ==
    [][vertex_ai_initialized =>
          /\ vertex_ai_initialized'
          /\ init_outcome' # init_outcome => init_outcome' = "skipped"]_vars

\* init_vertexai was called again with the flag set, and a request has been
\* served since.
C26_Witness ==
    /\ vertex_ai_initialized
    /\ init_outcome = "skipped"
    /\ \E r \in DOMAIN rq : Done(rq[r]) /\ Len(rq[r].attempts) = 2

\* C27: no step of a request (extract_identifiers, verify, classify,
\* classify_and_verify) writes the flag: whenever a request moves, the flag
\* and what init_vertexai recorded stay as they were.
C27_RequestsLeaveFlag ==
    [][rq' # rq =>
          /\ vertex_ai_initialized' = vertex_ai_initialized
          /\ init_outcome' = init_outcome]_vars

\* A request ran its loop to the end, both calls failing, under a set flag.
C27_Witness ==
    /\ vertex_ai_initialized
    /\ \E r \in DOMAIN rq : AllThrew(rq[r])

\* What the attempts of a request that are over ended with, in order: the
\* text the call returned, or the error it raised.
OutcomesOf(q) ==
    LET over == {i \in 1..Len(q.attempts) : ~InFlight(q.attempts[i])} IN
    [i \in 1..Cardinality(over) |->
        [text |-> q.attempts[i].text, error |-> q.attempts[i].error]]
\* The request on its own, from its entry to its first call.
BeginAlone(req, initialized) ==
    LET q == NewRequest(req)
        early == EarlyReturn(initialized, req)
        mode == IF initialized /\ req.op = "ClassifyAndVerify"
                THEN <<IsInitialClassification(req.erp_data)>>
                ELSE None IN
    IF early # NoRecord
    THEN [q EXCEPT !.pc = "DONE", !.response = early, !.records = 1,
                   !.is_initial_classification = mode, !.ready_at_entry = <<initialized>>]
    ELSE [q EXCEPT !.pc = "ATTEMPTING", !.idx = 1, !.is_initial_classification = mode,
                   !.ready_at_entry = <<initialized>>,
                   !.attempts = <<Attempt(model_names(gemini_model_name)[1], 1)>>]
\* The request on its own, its calls ending with the given outcomes.
RECURSIVE RunAlone(_, _, _)
RunAlone(q, outcomes, i) ==
    IF i > Len(outcomes) THEN q
    ELSE RunAlone(EndTurn(q,
                          IF outcomes[i].text = None THEN Raised(outcomes[i].error, 0)
                          ELSE Turn(q.request, outcomes[i].text[1]),
                          outcomes[i].text),
                  outcomes, i + 1)

\* C28: requests in flight together do not interfere: whatever the order in
\* which their calls end, each request is where it would be, and returns the
\* record it would return, had it run alone with the same inputs and the
\* same outcomes of its own calls; its position in the loop, its last error
\* and its raw text depend on nothing another request did.
C28_NoInterference ==
    \A r \in DOMAIN rq :
        rq[r].pc # "PENDING" =>
            \E initialized \in BOOLEAN :
                rq[r] = Respond(RunAlone(BeginAlone(rq[r].request, initialized),
                                         OutcomesOf(rq[r]), 1))

\* Two requests whose calls were interleaved: the first candidate of each
\* failed before the second candidate of either ended, and both are done
\* with different last errors.
C28_Witness ==
    /\ \A r \in DOMAIN rq : Done(rq[r]) /\ Len(rq[r].attempts) = 2
    /\ rq[1].last_error # rq[2].last_error
    /\ rq[1].request # rq[2].request
    /\ Threw(rq[1].attempts[2])
    /\ ~Threw(rq[2].attempts[2])

\* What the remote calls of a request did, in order: the text returned or the
\* error raised.
RemoteOutcomes(q) ==
    [i \in 1..Len(OutcomesOf(q)) |->
        IF q.attempts[i].text = None THEN [text |-> None, error |-> q.attempts[i].error]
        ELSE [text |-> q.attempts[i].text, error |-> NoExc]]

DocumentsArray(v) == IF IsArr(v) THEN v.a ELSE <<v>>
\* The entries that carry a non-empty identifier_value.
WithIdentifier(docs) ==
    {j \in 1..Len(docs) :
        /\ IsObj(docs[j])
        /\ IsStr(DocGet(docs[j], "identifier_value", ""))
        /\ DocGet(docs[j], "identifier_value", "").s # ""}
\* The answer decodes to document entries, all of them well formed, and at
\* least one has an identifier.
DecodesToIdentifiers(text) ==
    LET json_match == FenceSearch(text)
        decoded == IF json_match.found THEN json_loads(json_match.group)
                   ELSE json_loads(text)
        docs == DocumentsArray(decoded.val) IN
    /\ decoded.ok
    /\ Len(docs) >= 1
    /\ \A j \in 1..Len(docs) :
          /\ IsObj(docs[j])
          /\ IsStr(DocGet(docs[j], "document_type", "UNKNOWN"))
          /\ IsStr(DocGet(docs[j], "identifier_label", ""))
          /\ IsStr(DocGet(docs[j], "identifier_value", ""))
    /\ WithIdentifier(docs) # {}

\* C30 as stated: in the initial-classification mode of classify_and_verify,
\* a candidate whose answer decodes to document entries with at least one
\* non-empty identifier_value ends the request with its record: the
\* candidate succeeds, no later candidate is invoked, and the record has no
\* error and one field-confidence entry for each non-empty identifier, with
\* the extracted value and verified false.
C30_IdentifiersRecorded ==
    \A r \in DOMAIN rq :
        LET q == rq[r] IN
        (q.request.op = "ClassifyAndVerify" /\ q.is_initial_classification = <<TRUE>>) =>
            \A i \in Answered(q) :
                DecodesToIdentifiers(TextOf(q.attempts[i])) =>
                    LET json_match == FenceSearch(TextOf(q.attempts[i]))
                        decoded == IF json_match.found THEN json_loads(json_match.group)
                                   ELSE json_loads(TextOf(q.attempts[i]))
                        docs == DocumentsArray(decoded.val)
                        fcs == q.response.field_confidences IN
                    /\ Succeeded(q.attempts[i])
                    /\ Done(q)
                    /\ Len(q.attempts) = i
                    /\ q.response.error_message = None
                    /\ Len(fcs) = Cardinality(WithIdentifier(docs))
                    /\ \A k \in 1..Len(fcs) :
                          /\ ~fcs[k].verified
                          /\ \E j \in WithIdentifier(docs) :
                                fcs[k].extracted_value =
                                    <<DocGet(docs[j], "identifier_value", "").s>>

\* The answer reaches the field regex of extract_identifiers: it does not
\* decode, and it has a brace-bounded substring that does not decode either.
ReachesFieldRegex(text) ==
    /\ ~json_loads(text).ok
    /\ BraceSearch(text).found
    /\ ~json_loads(BraceSearch(text).group).ok
\* expected_fields as a set.
ExpectedFieldSet(document_type) ==
    {expected_fields(document_type)[i] : i \in 1..Len(expected_fields(document_type))}

\* C31: in extract_identifiers, a candidate whose answer does not decode and
\* whose brace-bounded substring does not decode either always ends the
\* request with its record: the candidate succeeds, no later candidate is
\* invoked, the record has no error, and the keys of the mapping are among the
\* expected fields of the requested document type (none of them, maybe).
C31_FieldRegexAlwaysSucceeds ==
    \A r \in DOMAIN rq :
        LET q == rq[r] IN
        q.request.op = "ExtractIdentifiers" =>
            \A i \in Answered(q) :
                ReachesFieldRegex(TextOf(q.attempts[i])) =>
                    /\ Succeeded(q.attempts[i])
                    /\ q.attempts[i].tier = 3
                    /\ Done(q)
                    /\ Len(q.attempts) = i
                    /\ q.response.error_message = None
                    /\ DOMAIN q.response.extracted_identifiers
                          \subseteq ExpectedFieldSet(q.request.document_type)

\* The first candidate's answer went to the field regex, which found one of
\* the two expected fields of a sales quote; the fallback was never invoked.
C31_Witness ==
    \E r \in DOMAIN rq :
        LET q == rq[r] IN
        /\ q.request.op = "ExtractIdentifiers"
        /\ Done(q)
        /\ Len(q.attempts) = 1
        /\ ReachesFieldRegex(TextOf(q.attempts[1]))
        /\ DOMAIN q.response.extracted_identifiers = {"salesQuoteNo"}
        /\ q.response.error_message = None

\* C32: an operation entered while the flag is false returns at once: no
\* candidate is invoked, and the one record returned has the error message
\* "Vertex AI client not initialized." and empty defaults, whatever the
\* operation and whatever the request.
C32_NotInitializedReturnsAtOnce ==
    \A r \in DOMAIN rq :
        LET q == rq[r] IN
        q.ready_at_entry = <<FALSE>> =>
            /\ Done(q)
            /\ q.attempts = <<>>
            /\ q.records = 1
            /\ q.response.error_message = <<"Vertex AI client not initialized.">>
            /\ EmptyDefaults(q.response)

\* Initialization failed at startup and a classify_and_verify request with
\* a decodable image was answered at once.
C32_Witness ==
    \E r \in DOMAIN rq :
        LET q == rq[r] IN
        /\ init_outcome = "failed"
        /\ q.ready_at_entry = <<FALSE>>
        /\ q.request.op = "ClassifyAndVerify"
        /\ q.request.document_images = <<TRUE>>
        /\ Done(q)
        /\ q.attempts = <<>>

\* The answer decodes, and what it decodes to is rejected by the response
\* schema of the operation.
ViolatesSchema(req, text) ==
    /\ Turn(req, text).raised
    /\ Turn(req, text).err.exc = "ValidationError"
    /\ Turn(req, text).tier \in {1, 2}

NoValidImage(req) == \A i \in 1..Len(req.document_images) : ~req.document_images[i]

\* C34: classify_and_verify, entered with the flag set and without any image
\* that decodes, returns at once the record with document type UNKNOWN,
\* confidence 0.0 and the error "No valid images provided", and invokes no
\* candidate; extract_identifiers, verify and classify in the same situation
\* go on to invoke a candidate.
C34_NoValidImages ==
    \A r \in DOMAIN rq :
        LET q == rq[r] IN
        (q.ready_at_entry = <<TRUE>> /\ NoValidImage(q.request)) =>
            IF q.request.op = "ClassifyAndVerify"
            THEN /\ Done(q)
                 /\ q.attempts = <<>>
                 /\ q.records = 1
                 /\ q.response.document_type = "UNKNOWN"
                 /\ q.response.classification_confidence = 0
                 /\ q.response.error_message = <<"No valid images provided">>
            ELSE /\ Len(q.attempts) >= 1
                 /\ q.attempts[1].model = gemini_model_name

\* A verify request whose only image does not decode was answered by the
\* first candidate.
C34_Witness ==
    \E r \in DOMAIN rq :
        LET q == rq[r] IN
        /\ q.request.op = "Verify"
        /\ q.request.document_images = <<FALSE>>
        /\ q.ready_at_entry = <<TRUE>>
        /\ Done(q)
        /\ Succeeded(q.attempts[1])

\* The document types verify refuses, in lower case.
CrossDocumentTypes == {"combined", "all"}

\* C35: verify, entered with the flag set, returns at once for the document
\* types "combined" and "all" in any letter case: no candidate is invoked and
\* the record has an error message and empty results.  For every other
\* document type, one of the three known ones or not, it goes on to invoke
\* the first candidate.
C35_CombinedRefused ==
    \A r \in DOMAIN rq :
        LET q == rq[r] IN
        (q.request.op = "Verify" /\ q.ready_at_entry = <<TRUE>>) =>
            IF Lower(q.request.document_type) \in CrossDocumentTypes
            THEN /\ Done(q)
                 /\ q.attempts = <<>>
                 /\ q.records = 1
                 /\ q.response.error_message # None
                 /\ EmptyDefaults(q.response)
            ELSE /\ Len(q.attempts) >= 1
                 /\ q.attempts[1].model = gemini_model_name

\* A verify request for "Combined", in mixed case, was refused at once.
C35_Witness ==
    \E r \in DOMAIN rq :
        LET q == rq[r] IN
        /\ q.request.op = "Verify"
        /\ q.request.document_type = "Combined"
        /\ q.ready_at_entry = <<TRUE>>
        /\ Done(q)
        /\ q.attempts = <<>>

\* C36: a record returned by verify never holds both an error message and a
\* non-empty list of discrepancies or of field confidences; so the endpoint
\* /verify_document answers every record that has an error message with
\* HTTP 500 and returns none of them as a normal response.
C36_VerifyErrorsAre500 ==
    \A r \in DOMAIN rq :
        LET q == rq[r] IN
        (q.request.op = "Verify" /\ Done(q) /\ q.response.error_message # None) =>
            /\ q.response.discrepancies = <<>>
            /\ q.response.field_confidences = <<>>
            /\ q.http_status = 500

\* Both candidates of a verify request answered, the first with a
\* discrepancy that the schema rejects; the record of the failure lists
\* nothing, carries the text, and the endpoint answered 500.
C36_Witness ==
    \E r \in DOMAIN rq :
        LET q == rq[r] IN
        /\ q.request.op = "Verify"
        /\ AllFailed(q)
        /\ ReturnedText(q.attempts[1])
        /\ json_loads(TextOf(q.attempts[1])).ok
        /\ ViolatesSchema(q.request, TextOf(q.attempts[1]))
        /\ q.response.raw_llm_response # None
        /\ q.response.error_message # None
        /\ q.http_status = 500

\* The first of the types by the precedence SalesQuote, ProformaInvoice,
\* JobConsumption.
FirstByPrecedence(types) ==
    IF "SalesQuote" \in types THEN "SalesQuote"
    ELSE IF "ProformaInvoice" \in types THEN "ProformaInvoice"
    ELSE IF "JobConsumption" \in types THEN "JobConsumption"
    ELSE "UNKNOWN"
\* The document types the entries of a decoded array name.
ListedTypes(v) ==
    {MapDocumentType(DocGet(v.a[j], "document_type", "UNKNOWN").s) : j \in 1..Len(v.a)}
       \ {"UNKNOWN"}

\* C37 as stated: when the keyword heuristic of classify or of
\* classify_and_verify reads a text that holds keywords of more than one
\* document type, the record has the first of those types by the precedence
\* SalesQuote, ProformaInvoice, JobConsumption, wherever the keywords stand;
\* and when, in the initial-classification mode of classify_and_verify, the
\* decoded array lists documents of more than one type, the record has the
\* first of those types by the same precedence, whatever the order of the
\* array.
C37_PrecedenceDecides ==
    \A r \in DOMAIN rq :
        LET q == rq[r] IN
        \A i \in Answered(q) :
            LET text == TextOf(q.attempts[i])
                decoded == json_loads(text) IN
            /\ (/\ q.request.op \in {"Classify", "ClassifyAndVerify"}
                /\ ~decoded.ok
                /\ ~BraceSearch(text).found
                /\ Cardinality(KeywordTypes(text)) >= 2) =>
                   /\ Succeeded(q.attempts[i])
                   /\ q.response.document_type = FirstByPrecedence(KeywordTypes(text))
            /\ (/\ q.request.op = "ClassifyAndVerify"
                /\ q.is_initial_classification = <<TRUE>>
                /\ decoded.ok
                /\ IsArr(decoded.val)
                /\ Cardinality(ListedTypes(decoded.val)) >= 2) =>
                   /\ Succeeded(q.attempts[i])
                   /\ q.response.document_type = FirstByPrecedence(ListedTypes(decoded.val))
====
